---------------------------- MODULE Spec2Model ----------------------------
(***************************************************************************)
(* A model of tx-composer: the DynamicComposer step graph with its ABI     *)
(* validator and builder, the VM status diagnosis table and the sequential *)
(* dry-run engine.  Each component has its own specification over the      *)
(* shared variables; the variables of the other components stay idle.      *)
(***************************************************************************)
EXTENDS Integers, Sequences, FiniteSets, TLC

VARIABLES
    \* ---- diagnoseVmStatus (simulation/errors.ts)
    vmStatus,       \* the status string handed to diagnoseVmStatus, a sequence of fragments
    stepLabel,      \* the optional step label handed to diagnoseVmStatus
    diagPc,         \* "call" before diagnoseVmStatus has run, "returned" after
    diagnosed,      \* the DiagnosedError[] diagnoseVmStatus returned
    \* ---- dryRun (simulation/plan.ts)
    dryPc,          \* where dryRun stands: "idle", "start", "loop", "simulating",
                    \* "done", "rejected"
    plan,           \* the SimulationPlan handed to dryRun
    initialSnapshot,\* the BalanceSnapshot captured first
    currentBalances,\* the carried-forward balances
    currentVault,   \* the carried-forward vault, Null before a step observed one
    allSuccess,     \* the conjunction of the steps' simulation.success
    stepResults,    \* the StepResult[] pushed so far
    simLog,         \* the simulations buildAndSimulate returned so far, in order
    simRequests,    \* the payloads buildAndSimulate was called with so far, in order
    report,         \* the FlowReport returned, Null before
    \* ---- DynamicComposer and validateSteps (dynamic/composer.ts, dynamic/validate.ts)
    steps,          \* DynamicComposer.steps: the {label, step} entries in declaration order
    lastWarnings,   \* DynamicComposer.lastWarnings
    functionAbiCache, \* validate.ts functionAbiCache: function key -> MoveFunction or Null
    moduleAbiCache, \* validate.ts moduleAbiCache: module key -> MoveModule or Null
    validated,      \* what validate() returned for the present steps, Null before
    buildPc,        \* where build() stands: "idle", "compose", "built", "thrown"
    resultsMap,     \* the builder callback's resultsMap
    buildLog,       \* the collaborators build() called since it was entered, in order
    buildError,     \* the Error build() threw, Null when none
    fetchLog,       \* the modules the latest validateSteps call asked getAccountModule for,
                    \* Unwatched while nobody watches the node's requests
    composed,       \* the ComposedResult simulate() returned, Pending while it runs, Null before
    declareError,   \* the Error the latest addStep or fromJSON threw, Null when none
    \* ---- validateSteps step by step, and the node it asks (dynamic/validate.ts)
    unreachable,    \* the modules whose getAccountModule request fails at present
    valPc,          \* where validateSteps stands: "idle" or "fetching"
    fanOut,         \* abiPromises: per step "hit", "wait", "done" or "rejected", and the abi
    previous,       \* what the validateSteps call before the latest returned, Null before
    \* ---- extractBalancesFromSimulation called on its own (simulation/flow-tracker.ts)
    extractPc,      \* "call" before the extract function called has run, "returned" after
    extractCopy,    \* which of the repository's two copies of the function the build holds
    extractArgs,    \* the arguments: raw, tokens, owner
    extracted,      \* the Map returned, Null before
    \* ---- deserializeArg called on its own (dynamic/composer.ts)
    decodePc,       \* "call" before deserializeArg has run, "returned" after
    jsonArg,        \* the StepArgJSON handed to deserializeArg
    decoded,        \* the StepArg returned, Null before
    \* ---- computeDeltas called on its own (simulation/flow-tracker.ts)
    deltasPc,       \* "call" before computeDeltas has run, "returned" after
    deltasArgs,     \* the arguments: before, after, tokens
    deltasOut,      \* the BalanceDelta[] returned, Null before
    \* ---- AptosClient and executeTransaction (core/client.ts, core/transaction.ts)
    client,         \* the AptosClient constructed, Null before
    nodeCalls,      \* the calls made on client.aptos, in order
    execPc,         \* "idle", or "submitted" between signAndSubmitTransaction and
                    \* waitForTransaction
    returned,       \* what the latest call returned or the Error it threw, Null before
    \* ---- composeActions (composer/composer.ts)
    actions,        \* the {label, action} list handed to composeActions, Null before
    actionsPc,      \* "idle", "building" while an action's build is awaited, "done"
    ctxResults,     \* ctx.results: label -> the CallArgument[] recorded
    actionLog,      \* the builds invoked so far, in order: the action, the results map
                    \* its context held when it was invoked, and what it returned
    \* ---- calls on one DynamicComposer while another is suspended (dynamic/composer.ts)
    inFlight        \* what the build() in flight read when it called validateSteps: the
                    \* steps it handed over and the warnings it got back; Null before

diagVars == <<vmStatus, stepLabel, diagPc, diagnosed>>

dryVars == <<dryPc, plan, initialSnapshot, currentBalances, currentVault,
             allSuccess, stepResults, simLog, simRequests, report>>

fetchVars == <<unreachable, valPc, fanOut, previous>>

composerVars == <<steps, lastWarnings, functionAbiCache, moduleAbiCache, validated,
                  buildPc, resultsMap, buildLog, buildError, fetchLog, composed,
                  declareError, fetchVars>>

extractVars == <<extractPc, extractCopy, extractArgs, extracted>>

decodeVars == <<decodePc, jsonArg, decoded>>

deltasVars == <<deltasPc, deltasArgs, deltasOut>>

\* The variables of the functions called on their own.
clientVars == <<client, nodeCalls, execPc, returned>>

actionsVars == <<actions, actionsPc, ctxResults, actionLog>>

flightVars == <<inFlight>>

callVars == <<extractVars, decodeVars, deltasVars, clientVars, actionsVars, flightVars>>

vars == <<diagVars, dryVars, composerVars, callVars>>

(***************************************************************************)
(* Sequence helpers.                                                       *)
(***************************************************************************)
SeqsUpTo(S, n) == UNION {[1..m -> S] : m \in 0..n}

Range(s) == {s[i] : i \in 1..Len(s)}

\* The concatenation of the sequences of ss (Array.prototype.flat).
RECURSIVE Flat(_)
Flat(ss) == IF ss = <<>> THEN <<>> ELSE Head(ss) \o Flat(Tail(ss))

\* null and undefined
Null == [null |-> TRUE]

\* The request log of a node nobody watches.
Unwatched == << <<"unwatched">> >>

\* Map<K, V>: a function on the keys set so far.
EmptyMap == [k \in {} |-> 0]
MapHas(m, k) == k \in DOMAIN m
MapGet(m, k, default) == IF k \in DOMAIN m THEN m[k] ELSE default
MapSet(m, k, v) == [x \in DOMAIN m \cup {k} |-> IF x = k THEN v ELSE m[x]]

(***************************************************************************)
(* VM status strings.  A status is a sequence of fragments joined by       *)
(* blanks; a regular expression of the table is a set of alternatives,     *)
(* each a list of literals to be found in this order with anything         *)
(* (".*") between them.  Occurs gives, per fragment, the literals of the   *)
(* table that occur in it as written, OccursFold those that occur in it    *)
(* when case is ignored (the /i flag).                                     *)
(***************************************************************************)
EXECUTED == "Executed successfully"

Fragments ==
    { "INSUFFICIENT_BALANCE", "insufficient_balance", "65540", "0x10004",
      "ARITHMETIC_ERROR", "out_of_gas", "SEQUENCE_NUMBER", "REPAY", "EXCEED",
      "repay_amount_exceeds", "insufficient_shares", "SQRT_PRICE_LIMIT",
      "lending", "pool_v3", "pool_v2", "ABORTED", "Move abort", EXECUTED }

OccursFold(f) ==
    CASE f = "INSUFFICIENT_BALANCE" -> {"insufficient_balance"}
      [] f = "insufficient_balance" -> {"insufficient_balance"}
      [] f = "65540"                -> {"65540"}
      [] f = "ARITHMETIC_ERROR"     -> {"arithmetic_error"}
      [] f = "out_of_gas"           -> {"out_of_gas"}
      [] f = "SEQUENCE_NUMBER"      -> {"sequence_number"}
      [] f = "REPAY"                -> {"repay"}
      [] f = "EXCEED"               -> {"exceed"}
      [] f = "repay_amount_exceeds" -> {"repay", "exceed", "repay_amount_exceeds"}
      [] f = "insufficient_shares"  -> {"insufficient_shares"}
      [] f = "SQRT_PRICE_LIMIT"     -> {"sqrt_price_limit", "sqrt_price"}
      [] f = "lending"              -> {"lending"}
      [] f = "pool_v3"              -> {"pool_v3"}
      [] f = "pool_v2"              -> {"pool_v2"}
      [] f = "ABORTED"              -> {"aborted"}
      [] OTHER                      -> {}

Occurs(f) ==
    CASE f = "INSUFFICIENT_BALANCE" -> {"INSUFFICIENT_BALANCE"}
      [] f = "65540"                -> {"65540"}
      [] OTHER                      -> {}

\* lit occurs in fragment f, under the flag of the expression.
FragmentHas(f, lit, ignoreCase) ==
    IF ignoreCase THEN lit \in OccursFold(f) ELSE lit \in Occurs(f)

\* One alternative lit1.*lit2...: the literals occur in this order.
RECURSIVE AltMatches(_, _, _, _)
AltMatches(status, alt, ignoreCase, from) ==
    IF alt = <<>> THEN TRUE
    ELSE \E i \in from..Len(status) :
            /\ FragmentHas(status[i], Head(alt), ignoreCase)
            /\ AltMatches(status, Tail(alt), ignoreCase, i)

\* pattern.test(vmStatus)
RegExpTest(pattern, status) ==
    \E alt \in pattern.alts : AltMatches(status, alt, pattern.ignoreCase, 1)

Pattern(alts, ignoreCase, code) ==
    [alts |-> alts, ignoreCase |-> ignoreCase, code |-> code, severity |-> "error"]

ERROR_PATTERNS ==
    << Pattern({<<"INSUFFICIENT_BALANCE">>, <<"65540">>}, FALSE, "INSUFFICIENT_BALANCE"),
       Pattern({<<"arithmetic_error">>}, TRUE, "ARITHMETIC_OVERFLOW"),
       Pattern({<<"out_of_gas">>}, TRUE, "OUT_OF_GAS"),
       Pattern({<<"sequence_number">>}, TRUE, "SEQUENCE_NUMBER_ERROR"),
       Pattern({<<"repay", "exceed">>, <<"repay_amount_exceeds">>}, TRUE, "REPAY_EXCEEDS_DEBT"),
       Pattern({<<"insufficient_shares">>}, TRUE, "INSUFFICIENT_SHARES"),
       Pattern({<<"sqrt_price_limit">>, <<"sqrt_price">>}, TRUE, "PRICE_LIMIT_ERROR"),
       Pattern({<<"lending">>}, TRUE, "LENDING_ERROR"),
       Pattern({<<"pool_v3">>, <<"pool_v2">>}, TRUE, "DEX_POOL_ERROR"),
       Pattern({<<"aborted">>}, TRUE, "MOVE_ABORT") >>

DiagnosedError(severity, code, detail, label) ==
    [severity |-> severity, code |-> code, detail |-> detail, stepLabel |-> label]

\* The loop over ERROR_PATTERNS from rule i on: push the first match and break.
RECURSIVE MatchLoop(_, _, _)
MatchLoop(status, label, i) ==
    IF i > Len(ERROR_PATTERNS) THEN <<>>
    ELSE IF RegExpTest(ERROR_PATTERNS[i], status)
         THEN << DiagnosedError(ERROR_PATTERNS[i].severity, ERROR_PATTERNS[i].code,
                                "pattern", label) >>
         ELSE MatchLoop(status, label, i + 1)

\* Mutant: the generic ABORTED rule is tried before the specific ones.
MatchLoopGenericFirst(status, label, i) ==
    IF RegExpTest(ERROR_PATTERNS[Len(ERROR_PATTERNS)], status)
    THEN << DiagnosedError("error", "MOVE_ABORT", "pattern", label) >>
    ELSE MatchLoop(status, label, i)

matchFirstPattern(status, label, i) == MatchLoop(status, label, i)

\* Mutant: the generic error is missing when no pattern matches.
unknownFallbackMissing(errors, status, label) == errors

\* "If no pattern matched, add a generic error" carrying the raw status.
unknownFallback(errors, status, label) ==
    IF Len(errors) = 0 /\ status # <<EXECUTED>>
    THEN << DiagnosedError("error", "UNKNOWN_ERROR", <<"VM status:", status>>, label) >>
    ELSE errors

diagnoseVmStatus(status, label) ==
    IF status = <<>> \/ status = <<EXECUTED>> THEN <<>>
    ELSE unknownFallback(matchFirstPattern(status, label, 1), status, label)

(***************************************************************************)
(* Specification of the diagnosis: a status is drawn, diagnoseVmStatus is  *)
(* applied to it once.                                                     *)
(***************************************************************************)
MaxStatusLen == 3

StatusInputs == SeqsUpTo(Fragments, MaxStatusLen)
LabelInputs == {"none", "repay"}

ComposerFresh ==
    /\ steps = <<>>
    /\ lastWarnings = <<>>
    /\ functionAbiCache = EmptyMap
    /\ moduleAbiCache = EmptyMap
    /\ validated = Null
    /\ buildPc = "idle"
    /\ resultsMap = EmptyMap
    /\ buildLog = <<>>
    /\ buildError = Null
    /\ composed = Null
    /\ declareError = Null
    /\ unreachable = {}
    /\ valPc = "idle"
    /\ fanOut = <<>>
    /\ previous = Null

ComposerIdle == ComposerFresh /\ fetchLog = Unwatched

DryIdle ==
    /\ dryPc = "idle"
    /\ plan = Null
    /\ initialSnapshot = Null
    /\ currentBalances = EmptyMap
    /\ currentVault = Null
    /\ allSuccess = TRUE
    /\ stepResults = <<>>
    /\ simLog = <<>>
    /\ simRequests = <<>>
    /\ report = Null

ExtractIdle ==
    /\ extractPc = "idle"
    /\ extractCopy = "flow-tracker.ts"
    /\ extractArgs = Null
    /\ extracted = Null

DecodeIdle ==
    /\ decodePc = "idle"
    /\ jsonArg = Null
    /\ decoded = Null

DeltasIdle ==
    /\ deltasPc = "idle"
    /\ deltasArgs = Null
    /\ deltasOut = Null

ClientIdle ==
    /\ client = Null
    /\ nodeCalls = <<>>
    /\ execPc = "idle"
    /\ returned = Null

ActionsIdle ==
    /\ actions = Null
    /\ actionsPc = "idle"
    /\ ctxResults = EmptyMap
    /\ actionLog = <<>>

FlightIdle == inFlight = Null

CallsIdle ==
    ExtractIdle /\ DecodeIdle /\ DeltasIdle /\ ClientIdle /\ ActionsIdle /\ FlightIdle

DiagIdle ==
    /\ vmStatus = <<>>
    /\ stepLabel = "none"
    /\ diagPc = "idle"
    /\ diagnosed = <<>>

DiagInit ==
    /\ CallsIdle
    /\ DryIdle
    /\ ComposerIdle
    /\ vmStatus \in StatusInputs
    /\ stepLabel \in LabelInputs
    /\ diagPc = "call"
    /\ diagnosed = <<>>

Diagnose ==
    /\ diagPc = "call"
    /\ diagnosed' = diagnoseVmStatus(vmStatus, stepLabel)
    /\ diagPc' = "returned"
    /\ UNCHANGED <<vmStatus, stepLabel>>
    /\ UNCHANGED <<callVars, dryVars, composerVars>>

NextDiagnose == Diagnose

SpecDiagnose == DiagInit /\ [][NextDiagnose]_vars

(***************************************************************************)
(* Claims about diagnoseVmStatus, checked under SpecDiagnose.              *)
(***************************************************************************)
MatchingRules(status) ==
    {i \in 1..Len(ERROR_PATTERNS) : RegExpTest(ERROR_PATTERNS[i], status)}

EarliestRule(status) ==
    CHOOSE i \in MatchingRules(status) : \A j \in MatchingRules(status) : i <= j

RuleOf(code) == CHOOSE i \in 1..Len(ERROR_PATTERNS) : ERROR_PATTERNS[i].code = code

AtMostOneEarliest ==
    /\ Len(diagnosed) <= 1
    /\ (Len(diagnosed) = 1 /\ MatchingRules(vmStatus) # {})
          => diagnosed[1].code = ERROR_PATTERNS[EarliestRule(vmStatus)].code

LendingAndAborted ==
    /\ RuleOf("LENDING_ERROR") \in MatchingRules(vmStatus)
    /\ RuleOf("MOVE_ABORT") \in MatchingRules(vmStatus)

\* C6 as stated: at most one diagnosis, with the code of the earliest matching
\* rule, and every status matched by both the lending rule and the ABORTED rule
\* is diagnosed as LENDING_ERROR.
C6_Original ==
    diagPc = "returned" =>
        /\ AtMostOneEarliest
        /\ LendingAndAborted =>
              (Len(diagnosed) = 1 /\ diagnosed[1].code = "LENDING_ERROR")

\* C6 (amended): diagnoseVmStatus returns at most one diagnosis, whose code is
\* that of the earliest rule in table order that matches the status; a status
\* matched by both the lending rule and the ABORTED rule is never diagnosed as
\* MOVE_ABORT, and is diagnosed as LENDING_ERROR when no rule placed before the
\* lending rule matches it too.
C6_FirstMatchWins ==
    diagPc = "returned" =>
        /\ AtMostOneEarliest
        /\ LendingAndAborted =>
              /\ Len(diagnosed) = 1
              /\ diagnosed[1].code # "MOVE_ABORT"
              /\ (\A j \in MatchingRules(vmStatus) : j >= RuleOf("LENDING_ERROR"))
                    => diagnosed[1].code = "LENDING_ERROR"

C6_Witness ==
    /\ diagPc = "returned"
    /\ LendingAndAborted
    /\ Len(vmStatus) = 3
    /\ Len(diagnosed) = 1
    /\ diagnosed[1].code = "LENDING_ERROR"

\* C7: diagnoseVmStatus returns the empty list exactly for the empty status and
\* for "Executed successfully"; every other status gets exactly one diagnosis,
\* which is UNKNOWN_ERROR carrying the raw status when no rule matches.
C7_EmptyIffSuccess ==
    diagPc = "returned" =>
        /\ diagnosed = <<>> <=> (vmStatus = <<>> \/ vmStatus = <<EXECUTED>>)
        /\ diagnosed # <<>> => Len(diagnosed) = 1
        /\ (diagnosed # <<>> /\ MatchingRules(vmStatus) = {}) =>
              /\ diagnosed[1].code = "UNKNOWN_ERROR"
              /\ diagnosed[1].detail = <<"VM status:", vmStatus>>
              /\ diagnosed[1].stepLabel = stepLabel

C7_Witness ==
    /\ diagPc = "returned"
    /\ Len(diagnosed) = 1
    /\ diagnosed[1].code = "UNKNOWN_ERROR"
    /\ EXECUTED \in {vmStatus[i] : i \in 1..Len(vmStatus)}

(***************************************************************************)
(* The sequential dry run: flow-tracker.ts and dryRun of plan.ts.          *)
(***************************************************************************)
Undefined == [undefined |-> TRUE]

\* value ?? fallback
Coalesce(value, fallback) == IF value = Null \/ value = Undefined THEN fallback ELSE value

TokenConfig(symbol, metadata, decimals) ==
    [symbol |-> symbol, metadata |-> metadata, decimals |-> decimals]

\* String.prototype.toLowerCase on the addresses of the model.
ToLowerCase(str) ==
    CASE str = "0xA" -> "0xa"
      [] str = "0xB" -> "0xb"
      [] OTHER -> str

\* createObjectAddress(owner, metadata): the primary store of (owner, metadata),
\* one address per pair.
createObjectAddress(owner, metadata) == <<"object", owner, ToLowerCase(metadata)>>

\* data.type.includes(needle) / resource.includes(needle)
TypeIncludes(type, needle) ==
    CASE type = "0x1::fungible_asset::FungibleStore" -> needle = "FungibleStore"
      [] type = "0xP::lending::Vault" -> needle \in {"lending::Vault", "Vault"}
      [] type = "0xQ::lending::Vault" -> needle \in {"lending::Vault", "Vault"}
      [] type = "0xQ::farming::VaultConfig" -> needle = "Vault"
      [] OTHER -> FALSE

\* The entries of raw.changes.
WriteStore(address, balance) ==
    [type |-> "write_resource", address |-> address,
     dataType |-> "0x1::fungible_asset::FungibleStore",
     hasBalance |-> TRUE, balance |-> balance, collaterals |-> <<>>, liabilities |-> <<>>]

WriteResource(address, dataType) ==
    [type |-> "write_resource", address |-> address, dataType |-> dataType,
     hasBalance |-> FALSE, balance |-> 0, collaterals |-> <<>>, liabilities |-> <<>>]

WriteVault(address, dataType, collaterals, liabilities) ==
    [type |-> "write_resource", address |-> address, dataType |-> dataType,
     hasBalance |-> FALSE, balance |-> 0,
     collaterals |-> collaterals, liabilities |-> liabilities]

DeleteResource(address, resource) ==
    [type |-> "delete_resource", address |-> address, dataType |-> resource,
     hasBalance |-> FALSE, balance |-> 0, collaterals |-> <<>>, liabilities |-> <<>>]

\* expectedStores: store address -> canonical metadata, a later token of the
\* list replacing an earlier one with the same store.
RECURSIVE expectedStores(_, _)
expectedStores(tokens, owner) ==
    IF tokens = <<>> THEN EmptyMap
    ELSE LET last == tokens[Len(tokens)]
         IN MapSet(expectedStores(SubSeq(tokens, 1, Len(tokens) - 1), owner),
                   createObjectAddress(owner, last.metadata), last.metadata)

\* The loop over the changes, result being the map built so far.
RECURSIVE ExtractBalancesLoop(_, _, _)
ExtractBalancesLoop(changes, stores, result) ==
    IF changes = <<>> THEN result
    ELSE LET c == Head(changes)
             take == /\ c.type = "write_resource"
                     /\ TypeIncludes(c.dataType, "FungibleStore")
                     /\ MapHas(stores, c.address)
                     /\ c.hasBalance
         IN ExtractBalancesLoop(Tail(changes), stores,
                IF take THEN MapSet(result, stores[c.address], c.balance) ELSE result)

extractBalancesFromSimulation(raw, tokens, owner) ==
    ExtractBalancesLoop(raw.changes, expectedStores(tokens, owner), EmptyMap)

RECURSIVE SumSeq(_)
SumSeq(values) == IF values = <<>> THEN 0 ELSE Head(values) + SumSeq(Tail(values))

VaultSnapshot(collateral, debtPrincipal, exists) ==
    [market |-> "", collateral |-> collateral, debtPrincipal |-> debtPrincipal,
     exists |-> exists]

\* extractVaultFromSimulation adding up the first entry of each list only.
RECURSIVE extractVaultFirstLeg(_, _)
extractVaultFirstLeg(raw, protocolAddress) ==
    IF raw.changes = <<>> THEN Null
    ELSE LET c == Head(raw.changes)
         IN IF c.type = "delete_resource" /\ TypeIncludes(c.dataType, "Vault")
            THEN VaultSnapshot(0, 0, FALSE)
            ELSE IF c.type = "write_resource" /\ TypeIncludes(c.dataType, "lending::Vault")
            THEN VaultSnapshot(IF c.collaterals = <<>> THEN 0 ELSE Head(c.collaterals),
                               IF c.liabilities = <<>> THEN 0 ELSE Head(c.liabilities),
                               TRUE)
            ELSE extractVaultFirstLeg([raw EXCEPT !.changes = Tail(raw.changes)],
                                      protocolAddress)

\* The first change that is a deletion of a *Vault* resource or a write of a
\* lending::Vault decides; protocolAddress is not looked at.
RECURSIVE extractVaultFromSimulation(_, _)
extractVaultFromSimulation(raw, protocolAddress) ==
    IF raw.changes = <<>> THEN Null
    ELSE LET c == Head(raw.changes)
         IN IF c.type = "delete_resource" /\ TypeIncludes(c.dataType, "Vault")
            THEN VaultSnapshot(0, 0, FALSE)
            ELSE IF c.type = "write_resource" /\ TypeIncludes(c.dataType, "lending::Vault")
            THEN VaultSnapshot(SumSeq(c.collaterals), SumSeq(c.liabilities), TRUE)
            ELSE extractVaultFromSimulation([raw EXCEPT !.changes = Tail(raw.changes)],
                                            protocolAddress)

RECURSIVE Pow10(_)
Pow10(n) == IF n = 0 THEN 1 ELSE 10 * Pow10(n - 1)

\* formatAmount: (Number(raw) / 10 ** decimals).toFixed(decimals), as the sign,
\* the integer part and the decimals digits of the decimal it prints.
formatAmount(raw, decimals) ==
    LET abs == IF raw < 0 THEN 0 - raw ELSE raw
    IN [minus |-> raw < 0, whole |-> abs \div Pow10(decimals),
        fraction |-> abs % Pow10(decimals), digits |-> decimals]

BalanceDelta(token, before, after) ==
    [token |-> token, before |-> before, after |-> after, delta |-> after - before,
     deltaFormatted |-> [sign |-> IF after - before >= 0 THEN "+" ELSE "",
                         amount |-> formatAmount(after - before, token.decimals)]]

\* computeDeltas with a token absent from the after-map counted as 0.
computeDeltasAfterZero(before, after, tokens) ==
    [i \in 1..Len(tokens) |->
        BalanceDelta(tokens[i], MapGet(before, tokens[i].metadata, 0),
                     MapGet(after, tokens[i].metadata, 0))]

computeDeltas(before, after, tokens) ==
    [i \in 1..Len(tokens) |->
        LET b == MapGet(before, tokens[i].metadata, 0)
            a == MapGet(after, tokens[i].metadata, b)
        IN BalanceDelta(tokens[i], b, a)]

computeDiff(before, afterBalances, tokens, vaultBefore, vaultAfter) ==
    [owner |-> before.owner,
     deltas |-> computeDeltas(before.balances, afterBalances, tokens),
     vault |-> IF vaultBefore # Undefined \/ vaultAfter # Undefined
               THEN [before |-> Coalesce(vaultBefore, Null),
                     after |-> Coalesce(vaultAfter, Null)]
               ELSE Undefined]

\* actual is the sequence of the parts its text is put together from.
ExpectationResult(passed, description, actual) ==
    [passed |-> passed, description |-> description, actual |-> actual]

\* deltas.find(d => d.token.metadata.toLowerCase() === exp.token?.toLowerCase())
FindDelta(deltas, token) ==
    LET hits == {i \in 1..Len(deltas) :
                    ToLowerCase(deltas[i].token.metadata) = ToLowerCase(token)}
    IN IF hits = {} THEN Undefined
       ELSE deltas[CHOOSE i \in hits : \A j \in hits : i <= j]

validateExpectation(exp, deltas, vaultBefore, vaultAfter) ==
    CASE exp.type = "balance_increase" ->
            LET d == FindDelta(deltas, exp.token)
            IN IF d = Undefined
               THEN ExpectationResult(FALSE, exp.description, <<"token not tracked">>)
               ELSE ExpectationResult(d.delta > 0, exp.description,
                                      <<d.deltaFormatted, d.token.symbol>>)
      [] exp.type = "balance_decrease" ->
            LET d == FindDelta(deltas, exp.token)
            IN IF d = Undefined
               THEN ExpectationResult(FALSE, exp.description, <<"token not tracked">>)
               ELSE ExpectationResult(d.delta < 0, exp.description,
                                      <<d.deltaFormatted, d.token.symbol>>)
      [] exp.type = "vault_debt_decrease" ->
            IF vaultBefore = Null \/ vaultAfter = Null
            THEN ExpectationResult(FALSE, exp.description, <<"vault not tracked">>)
            ELSE ExpectationResult(vaultAfter.debtPrincipal < vaultBefore.debtPrincipal,
                    exp.description,
                    <<"debt", vaultBefore.debtPrincipal, vaultAfter.debtPrincipal>>)
      [] exp.type = "vault_collateral_decrease" ->
            IF vaultBefore = Null \/ vaultAfter = Null
            THEN ExpectationResult(FALSE, exp.description, <<"vault not tracked">>)
            ELSE ExpectationResult(vaultAfter.collateral < vaultBefore.collateral,
                    exp.description,
                    <<"collateral", vaultBefore.collateral, vaultAfter.collateral>>)
      [] exp.type = "success" ->
            ExpectationResult(TRUE, exp.description, <<"checked at step level">>)
      [] OTHER ->
            ExpectationResult(FALSE, exp.description, <<"unknown type", exp.type>>)

\* validateExpectations leaving out the balance expectations whose token has no
\* delta.
validateExpectationsTrackedOnly(expectations, deltas, vaultBefore, vaultAfter) ==
    LET kept == SelectSeq(expectations,
                    LAMBDA exp : exp.type \in {"balance_increase", "balance_decrease"}
                                     => FindDelta(deltas, exp.token) # Undefined)
    IN [i \in 1..Len(kept) |->
           validateExpectation(kept[i], deltas, vaultBefore, vaultAfter)]

validateExpectations(expectations, deltas, vaultBefore, vaultAfter) ==
    [i \in 1..Len(expectations) |->
        validateExpectation(expectations[i], deltas, vaultBefore, vaultAfter)]


\* Mutant: tokens the simulation did not write fall back to the initial snapshot.
mergeOntoInitial(current, afterBalances, initial) ==
    [m \in DOMAIN initial \cup DOMAIN afterBalances |->
        IF m \in DOMAIN afterBalances THEN afterBalances[m] ELSE initial[m]]

\* mergedBalances: a copy of currentBalances with every entry of afterBalances set.
mergeBalances(current, afterBalances, initial) ==
    [m \in DOMAIN current \cup DOMAIN afterBalances |->
        IF m \in DOMAIN afterBalances THEN afterBalances[m] ELSE current[m]]

\* Mutant: the step's deltas are taken against the initial snapshot.
stepDeltasFromInitial(current, merged, tokens, initial) ==
    computeDeltas(initial, merged, tokens)

\* The step's deltas: computeDeltas(currentBalances, mergedBalances, plan.tokens).
stepDeltas(current, merged, tokens, initial) == computeDeltas(current, merged, tokens)

\* Mutant: a failed expectation fails the step.
stepSuccessWithExpectations(simulation, expectationResults) ==
    /\ simulation.success
    /\ \A i \in 1..Len(expectationResults) : expectationResults[i].passed

\* stepSuccess = simulation.success
stepSuccessOf(simulation, expectationResults) == simulation.success

StepResult(step, success, status, balancesAfter, vaultAfter, deltas, expectationResults) ==
    [label |-> step.label, success |-> success, vmStatus |-> status,
     balancesAfter |-> balancesAfter, vaultAfter |-> vaultAfter, deltas |-> deltas,
     expectationResults |-> expectationResults]

\* The carried vault forgotten by a step that observed none.
advanceVaultLatestOnly(current, vaultAfter) == Coalesce(vaultAfter, Null)

\* if (vaultAfter) currentVault = vaultAfter
advanceVault(current, vaultAfter) ==
    IF vaultAfter # Undefined THEN vaultAfter ELSE current

\* 1. captureSnapshot: one getFABalance per token, balances being what the
\* indexer answered (0 for a token it failed on).
CaptureSnapshot(balances) ==
    /\ dryPc = "start"
    /\ initialSnapshot' = [owner |-> plan.owner, balances |-> balances]
    /\ currentBalances' = balances
    /\ currentVault' = Null
    /\ allSuccess' = TRUE
    /\ stepResults' = <<>>
    /\ dryPc' = "loop"
    /\ UNCHANGED <<plan, simLog, simRequests, report>>
    /\ UNCHANGED <<callVars, diagVars, composerVars>>

\* 2. The loop over plan.steps takes its next step and awaits buildAndSimulate
\* on the step's payload.
SimulateRequested ==
    /\ dryPc = "loop"
    /\ Len(stepResults) < Len(plan.steps)
    /\ simRequests' = Append(simRequests, plan.steps[Len(stepResults) + 1].payload)
    /\ dryPc' = "simulating"
    /\ UNCHANGED <<plan, initialSnapshot, currentBalances, currentVault, allSuccess,
                   stepResults, simLog, report>>
    /\ UNCHANGED <<callVars, diagVars, composerVars>>

\* buildAndSimulate threw (the node refused the build or the simulation): nothing
\* catches it, dryRun rejects and returns no report.
SimulateThrows ==
    /\ dryPc = "simulating"
    /\ dryPc' = "rejected"
    /\ UNCHANGED <<plan, initialSnapshot, currentBalances, currentVault, allSuccess,
                   stepResults, simLog, simRequests, report>>
    /\ UNCHANGED <<callVars, diagVars, composerVars>>

\* The rest of the turn: buildAndSimulate returned simulation.
SimulateStep(simulation) ==
    /\ dryPc = "simulating"
    /\ LET step == plan.steps[Len(stepResults) + 1]
           afterBalances ==
               extractBalancesFromSimulation(simulation.raw, plan.tokens, plan.owner)
           mergedBalances ==
               mergeBalances(currentBalances, afterBalances, initialSnapshot.balances)
           vaultResult ==
               IF plan.vaultProtocol # ""
               THEN extractVaultFromSimulation(simulation.raw, plan.vaultProtocol)
               ELSE Null
           vaultAfter == IF vaultResult # Null THEN vaultResult ELSE Undefined
           deltas == stepDeltas(currentBalances, mergedBalances, plan.tokens,
                                initialSnapshot.balances)
           expectationResults ==
               validateExpectations(step.expectations, deltas, currentVault,
                                    Coalesce(vaultAfter, Null))
           stepSuccess == stepSuccessOf(simulation, expectationResults)
       IN /\ allSuccess' = (IF ~stepSuccess THEN FALSE ELSE allSuccess)
          /\ stepResults' = Append(stepResults,
                 StepResult(step, stepSuccess, simulation.vmStatus, mergedBalances,
                            vaultAfter, deltas, expectationResults))
          /\ currentBalances' = mergedBalances
          /\ currentVault' = advanceVault(currentVault, vaultAfter)
    /\ simLog' = Append(simLog, simulation)
    /\ dryPc' = "loop"
    /\ UNCHANGED <<plan, initialSnapshot, simRequests, report>>
    /\ UNCHANGED <<callVars, diagVars, composerVars>>

\* The diagnoses of the failed steps, in step order.
RECURSIVE CollectErrors(_)
CollectErrors(results) ==
    IF results = <<>> THEN <<>>
    ELSE (IF ~Head(results).success
          THEN diagnoseVmStatus(Head(results).vmStatus, Head(results).label)
          ELSE <<>>) \o CollectErrors(Tail(results))

ExpectationWarning(e, label) ==
    [severity |-> "warning", code |-> "EXPECTATION_FAILED", title |-> e.description,
     detail |-> e.actual, stepLabel |-> label]

\* One warning per failed expectation, in step order.
RECURSIVE CollectWarnings(_)
CollectWarnings(results) ==
    IF results = <<>> THEN <<>>
    ELSE LET r == Head(results)
             failed == SelectSeq(r.expectationResults, LAMBDA e : ~e.passed)
         IN [i \in 1..Len(failed) |-> ExpectationWarning(failed[i], r.label)]
            \o CollectWarnings(Tail(results))

\* The report dryRun builds after the loop.
FlowReport ==
    [plan |-> plan,
     success |-> allSuccess,
     initialSnapshot |-> initialSnapshot,
     stepResults |-> stepResults,
     overallDiff |-> computeDiff(initialSnapshot, currentBalances,
                                 plan.tokens, Null, currentVault),
     errors |-> CollectErrors(stepResults),
     warnings |-> CollectWarnings(stepResults)]

\* A dryRun whose loop breaks at the first failed step.
AggregateAfterFailure ==
    /\ dryPc = "loop"
    /\ Len(stepResults) = Len(plan.steps) \/ ~allSuccess
    /\ report' = FlowReport
    /\ dryPc' = "done"
    /\ UNCHANGED <<plan, initialSnapshot, currentBalances, currentVault, allSuccess,
                   stepResults, simLog, simRequests>>
    /\ UNCHANGED <<callVars, diagVars, composerVars>>

\* 3.-5. After the loop: the overall diff, the errors, the warnings, the report.
Aggregate ==
    /\ dryPc = "loop"
    /\ Len(stepResults) = Len(plan.steps)
    /\ report' = FlowReport
    /\ dryPc' = "done"
    /\ UNCHANGED <<plan, initialSnapshot, currentBalances, currentVault, allSuccess,
                   stepResults, simLog, simRequests>>
    /\ UNCHANGED <<callVars, diagVars, composerVars>>

(***************************************************************************)
(* Specification of the dry run: a plan is drawn, then dryRun runs on it,  *)
(* the indexer and the simulations answering anything from the inputs.     *)
(***************************************************************************)
MaxPlanSteps == 3

OWNER == "0xowner"
PROTOCOL == "0xP"
TOKEN_A == TokenConfig("A", "0xa", 1)
TOKEN_B == TokenConfig("B", "0xb", 0)
AccountAddr(account) == <<"account", account, "">>
STORE_A == createObjectAddress(OWNER, "0xa")
STORE_B == createObjectAddress(OWNER, "0xb")
POOL_STORE_A == createObjectAddress("pool", "0xa")

Expectation(type, token) == [type |-> type, token |-> token, description |-> type]

ExpectationInputs ==
    { <<>>,
      << Expectation("success", ""), Expectation("balance_increase", "0xA"),
         Expectation("balance_decrease", "0xb"), Expectation("balance_decrease", "0xz"),
         Expectation("vault_debt_decrease", ""),
         Expectation("vault_collateral_decrease", "") >> }

\* The EntryFunctionPayload of the i-th step of a plan.
Payload(i) == [function |-> <<PROTOCOL, "lending", "repay">>, functionArguments |-> <<i>>]

PlanInputs ==
    { [name |-> "flow", owner |-> OWNER, tokens |-> <<TOKEN_A, TOKEN_B>>,
       steps |-> [i \in 1..n |-> [label |-> i, payload |-> Payload(i),
                                   expectations |-> e]],
       vaultProtocol |-> PROTOCOL] :
      n \in 1..MaxPlanSteps, e \in ExpectationInputs }

SnapshotInputs == { [m \in {"0xa", "0xb"} |-> IF m = "0xa" THEN 4 ELSE 0],
                    [m \in {"0xa", "0xb"} |-> IF m = "0xa" THEN 0 ELSE 2] }

ChangesInputs ==
    { <<>>,
      << WriteStore(STORE_A, 6), WriteStore(STORE_A, 1) >>,
      << WriteStore(POOL_STORE_A, 7), WriteStore(STORE_A, 0) >>,
      << WriteStore(STORE_B, 5), WriteResource(STORE_B, "0x1::object::ObjectCore") >>,
      << WriteStore(POOL_STORE_A, 9),
         WriteVault(AccountAddr(OWNER), "0xP::lending::Vault", <<2, 1>>, <<1>>) >>,
      << DeleteResource(AccountAddr(OWNER), "0xP::lending::Vault"),
         WriteStore(STORE_B, 1) >> }

OutcomeInputs ==
    { [success |-> TRUE, vmStatus |-> <<EXECUTED>>],
      [success |-> FALSE, vmStatus |-> <<"Move abort", "lending">>] }

SimulationInputs ==
    { [success |-> o.success, vmStatus |-> o.vmStatus, raw |-> [changes |-> c]] :
      o \in OutcomeInputs, c \in ChangesInputs }

DryInit ==
    /\ CallsIdle
    /\ DiagIdle
    /\ ComposerIdle
    /\ dryPc = "start"
    /\ plan \in PlanInputs
    /\ initialSnapshot = Null
    /\ currentBalances = EmptyMap
    /\ currentVault = Null
    /\ allSuccess = TRUE
    /\ stepResults = <<>>
    /\ simLog = <<>>
    /\ simRequests = <<>>
    /\ report = Null

NextDryRun ==
    \/ \E balances \in SnapshotInputs : CaptureSnapshot(balances)
    \/ SimulateRequested
    \/ \E simulation \in SimulationInputs : SimulateStep(simulation)
    \/ SimulateThrows
    \/ Aggregate

SpecDryRun == DryInit /\ [][NextDryRun]_vars

(***************************************************************************)
(* Claims about dryRun, checked under SpecDryRun.                          *)
(***************************************************************************)
TrackedMetadata == {plan.tokens[i].metadata : i \in 1..Len(plan.tokens)}

\* The changes of one simulation that write the owner's store of metadata m
\* and carry a balance.
OwnerStoreWrites(simulation, m) ==
    {i \in 1..Len(simulation.raw.changes) :
        LET c == simulation.raw.changes[i]
        IN /\ c.type = "write_resource"
           /\ c.dataType = "0x1::fungible_asset::FungibleStore"
           /\ c.address = <<"object", plan.owner, m>>
           /\ c.hasBalance}

\* The steps among the first n that wrote the owner's store of m.
WritingSteps(m, n) == {k \in 1..n : OwnerStoreWrites(simLog[k], m) # {}}

Latest(S) == CHOOSE x \in S : \A y \in S : y <= x

\* What the most recent of the first n steps that wrote m observed, the initial
\* snapshot if none did.
LastObserved(m, n) ==
    IF WritingSteps(m, n) = {} THEN initialSnapshot.balances[m]
    ELSE LET sim == simLog[Latest(WritingSteps(m, n))]
         IN sim.raw.changes[Latest(OwnerStoreWrites(sim, m))].balance

\* C8: after any number of simulated steps the carried-forward balance of each
\* tracked token is the balance the most recent step that wrote the owner's
\* store of that token observed, or the initial snapshot value if no step wrote
\* it; the same holds for the balancesAfter recorded with every step, so a step
\* that does not touch a token leaves its carried-forward balance as it was.
C8_CarryForward ==
    dryPc \in {"loop", "done"} =>
        /\ \A m \in TrackedMetadata :
              currentBalances[m] = LastObserved(m, Len(simLog))
        /\ \A n \in 1..Len(stepResults) : \A m \in TrackedMetadata :
              /\ stepResults[n].balancesAfter[m] = LastObserved(m, n)
              /\ OwnerStoreWrites(simLog[n], m) = {} =>
                    stepResults[n].balancesAfter[m] =
                        (IF n = 1 THEN initialSnapshot.balances[m]
                         ELSE stepResults[n - 1].balancesAfter[m])

\* Three steps, only the first of which wrote token A, to a value that is neither
\* the initial one nor zero.
C8_Witness ==
    /\ dryPc = "loop"
    /\ Len(simLog) = 3
    /\ WritingSteps("0xa", 3) = {1}
    /\ currentBalances["0xa"] = 1
    /\ initialSnapshot.balances["0xa"] = 4

\* C9: the delta overallDiff reports for a tracked token is the sum of that
\* token's per-step deltas; each step's before is the previous step's after
\* (the initial snapshot for the first step) and the overall after is the last
\* step's after.
C9_OverallIsSumOfSteps ==
    dryPc = "done" =>
        \A t \in 1..Len(plan.tokens) :
            LET overall == report.overallDiff.deltas[t]
                results == report.stepResults
                m == plan.tokens[t].metadata
            IN /\ overall.token = plan.tokens[t]
               /\ overall.delta = SumSeq([k \in 1..Len(results) |-> results[k].deltas[t].delta])
               /\ overall.before = report.initialSnapshot.balances[m]
               /\ \A k \in 1..Len(results) :
                     /\ results[k].deltas[t].before =
                           (IF k = 1 THEN report.initialSnapshot.balances[m]
                            ELSE results[k - 1].deltas[t].after)
                     /\ results[k].deltas[t].delta =
                           results[k].deltas[t].after - results[k].deltas[t].before
               /\ overall.after = results[Len(results)].deltas[t].after

C9_Witness ==
    /\ dryPc = "done"
    /\ Len(report.stepResults) = 3
    /\ report.stepResults[1].deltas[1].delta < 0
    /\ report.stepResults[2].deltas[1].delta > 0
    /\ report.stepResults[3].deltas[1].delta < 0
    /\ report.overallDiff.deltas[1].delta # 0

AnyExpectationFailed(results) ==
    \E k \in 1..Len(results) : \E i \in 1..Len(results[k].expectationResults) :
        ~results[k].expectationResults[i].passed

AnyExpectationPassed(results) ==
    \E k \in 1..Len(results) : \E i \in 1..Len(results[k].expectationResults) :
        results[k].expectationResults[i].passed

\* C10: FlowReport.success is true exactly when every step's simulation
\* succeeded, and each step's success is its simulation's success, whatever its
\* expectations gave.
C10_SuccessIffAllSimulationsSucceeded ==
    /\ dryPc \in {"loop", "done"} =>
          \A k \in 1..Len(stepResults) : stepResults[k].success = simLog[k].success
    /\ dryPc = "done" =>
          /\ report.success = (\A k \in 1..Len(simLog) : simLog[k].success)
          /\ \A k \in 1..Len(simLog) : report.stepResults[k].success = simLog[k].success

\* Every simulation succeeded and an expectation failed: the report still succeeds.
C10_Witness ==
    /\ dryPc = "done"
    /\ report.success
    /\ AnyExpectationFailed(report.stepResults)
    /\ report.warnings # <<>>

\* A simulation failed and expectations passed: the report still fails.
C10_WitnessFailed ==
    /\ dryPc = "done"
    /\ ~report.success
    /\ AnyExpectationPassed(report.stepResults)

(***************************************************************************)
(* DynamicComposer and the ABI validator.                                  *)
(*                                                                         *)
(* A name with "::" in it (a function id, a Move type) is the sequence of  *)
(* the parts between the "::", so split("::") is the sequence itself and   *)
(* a cache key is the tuple of the parts it is joined from.                *)
(***************************************************************************)
\* StepArg and its factories of dynamic/types.ts
SignerArg == [kind |-> "signer"]
LiteralArg(value) == [kind |-> "literal", value |-> value]
RefArg(step, returnIndex, mode) ==
    [kind |-> "ref", step |-> step, returnIndex |-> returnIndex, mode |-> mode]

ComposerStep(function, typeArguments, args) ==
    [function |-> function, typeArguments |-> typeArguments, args |-> args]

\* What the fullnode holds: the modules getAccountModule answers with.  A module
\* key outside the domain makes getAccountModule throw.
T_SIGNER_REF == <<"&signer">>
T_SIGNER == <<"signer">>
T_U64 == <<"u64">>
T_ADDRESS == <<"address">>
T_ASSET == <<"0x1", "fa", "FungibleAsset">>
T_RECEIPT == <<"0x1", "fa", "Receipt">>
T_TICKET == <<"0x9", "gone", "Ticket">>

MoveFunction(name, generic_type_params, params, return) ==
    [name |-> name, generic_type_params |-> generic_type_params,
     params |-> params, return |-> return]

MoveStruct(name, abilities) == [name |-> name, abilities |-> abilities]

ON_CHAIN ==
    [k \in {<<"0x1", "vault">>, <<"0x1", "fa">>} |->
        IF k = <<"0x1", "vault">>
        THEN [abi |-> [exposed_functions |->
                          << MoveFunction("withdraw", <<>>, <<T_SIGNER_REF, T_U64>>,
                                          <<T_RECEIPT, T_ASSET>>),
                             MoveFunction("deposit", <<>>, <<T_ADDRESS, T_ASSET>>, <<>>),
                             MoveFunction("open", <<>>, <<T_SIGNER, T_SIGNER_REF>>,
                                          <<T_TICKET>>) >>,
                       structs |-> <<>>]]
        ELSE [abi |-> [exposed_functions |-> <<>>,
                       structs |-> << MoveStruct("FungibleAsset", {"store"}),
                                      MoveStruct("Receipt", {"drop", "store"}) >>]]]

\* aptos.getAccountModule({accountAddress, moduleName}): the module as the chain
\* holds it, or a throw when the chain holds none or the request fails.
getAccountModule(address, moduleName) ==
    IF <<address, moduleName>> \in DOMAIN ON_CHAIN \ unreachable
    THEN [threw |-> FALSE, mod |-> ON_CHAIN[<<address, moduleName>>]]
    ELSE [threw |-> TRUE]

\* parseFunctionId: Null stands for the Error thrown on fewer than three parts.
parseFunctionId(functionId) ==
    IF Len(functionId) < 3 THEN Null
    ELSE <<functionId[1], functionId[2], functionId[3]>>

countSignerParams(params) ==
    LET others == {i \in 1..Len(params) : params[i] \notin {T_SIGNER_REF, T_SIGNER}}
    IN IF others = {} THEN Len(params)
       ELSE (CHOOSE i \in others : \A j \in others : i <= j) - 1

isStructType(typeStr) == Len(typeStr) > 1

parseStructId(typeStr) ==
    IF Len(typeStr) < 3 THEN Null
    ELSE <<typeStr[1], typeStr[2], typeStr[3]>>

\* for (const fn of abi.exposed_functions) functionAbiCache.set(key(fn.name), fn)
RECURSIVE cacheFunctions(_, _, _, _)
cacheFunctions(cache, address, moduleName, fns) ==
    IF fns = <<>> THEN cache
    ELSE cacheFunctions(MapSet(cache, <<address, moduleName, Head(fns).name>>, Head(fns)),
                        address, moduleName, Tail(fns))

\* fetchFunction.  seen is functionAbiCache as it stood when the call was made
\* (the cache check runs before the first await), fc and mc are the caches when
\* getAccountModule answers.
fetchFunction(seen, fc, mc, address, moduleName, functionName) ==
    LET cacheKey == <<address, moduleName, functionName>>
        r == getAccountModule(address, moduleName)
    IN IF MapHas(seen, cacheKey)
       THEN [abi |-> Coalesce(seen[cacheKey], Undefined),
             functionAbiCache |-> fc, moduleAbiCache |-> mc, requests |-> <<>>]
       ELSE IF r.threw
       THEN [abi |-> Undefined,
             functionAbiCache |-> MapSet(fc, cacheKey, Null), moduleAbiCache |-> mc,
             requests |-> <<<<address, moduleName>>>>]
       ELSE IF r.mod.abi = Undefined
       THEN [abi |-> Undefined,
             functionAbiCache |-> MapSet(fc, cacheKey, Null), moduleAbiCache |-> mc,
             requests |-> <<<<address, moduleName>>>>]
       ELSE LET cached == cacheFunctions(fc, address, moduleName,
                                         r.mod.abi.exposed_functions)
            IN [abi |-> Coalesce(MapGet(cached, cacheKey, Undefined), Undefined),
                functionAbiCache |-> cached,
                moduleAbiCache |-> MapSet(mc, <<address, moduleName>>, r.mod.abi),
                requests |-> <<<<address, moduleName>>>>]

fetchModuleAbi(fc, mc, address, moduleName) ==
    LET cacheKey == <<address, moduleName>>
        r == getAccountModule(address, moduleName)
    IN IF MapHas(mc, cacheKey)
       THEN [abi |-> Coalesce(mc[cacheKey], Undefined),
             functionAbiCache |-> fc, moduleAbiCache |-> mc, requests |-> <<>>]
       ELSE IF r.threw
       THEN [abi |-> Undefined,
             functionAbiCache |-> fc, moduleAbiCache |-> MapSet(mc, cacheKey, Null),
             requests |-> <<cacheKey>>]
       ELSE IF r.mod.abi = Undefined
       THEN [abi |-> Undefined,
             functionAbiCache |-> fc, moduleAbiCache |-> MapSet(mc, cacheKey, Null),
             requests |-> <<cacheKey>>]
       ELSE [abi |-> r.mod.abi,
             functionAbiCache |-> cacheFunctions(fc, address, moduleName,
                                                 r.mod.abi.exposed_functions),
             moduleAbiCache |-> MapSet(mc, cacheKey, r.mod.abi),
             requests |-> <<cacheKey>>]

\* checkDropAbility: hasDrop is "true", "false" or "null".
hasDropOf(moduleAbi, structName) ==
    LET found == IF moduleAbi = Undefined THEN {}
                 ELSE {i \in 1..Len(moduleAbi.structs) : moduleAbi.structs[i].name = structName}
        struct == moduleAbi.structs[CHOOSE i \in found : \A j \in found : i <= j]
    IN IF moduleAbi = Undefined \/ found = {} THEN "null"
       ELSE IF "drop" \in struct.abilities THEN "true" ELSE "false"

withHasDrop(m, structName) ==
    [hasDrop |-> hasDropOf(m.abi, structName),
     functionAbiCache |-> m.functionAbiCache,
     moduleAbiCache |-> m.moduleAbiCache,
     requests |-> m.requests]

checkDropAbility(fc, mc, address, moduleName, structName) ==
    withHasDrop(fetchModuleAbi(fc, mc, address, moduleName), structName)

\* 1. The ABI of every step: steps.map(async ...) makes every call, and with it
\* every cache check, before the first answer arrives.  A malformed function id
\* rejects its own promise only.
RECURSIVE fetchAbis(_, _, _, _)
fetchAbisAfter(e, f, entries, seen) ==
    [fetchAbis(entries, seen, f.functionAbiCache, f.moduleAbiCache)
        EXCEPT !.results = <<[label |-> e.label, step |-> e.step, abi |-> f.abi]>> \o @,
               !.requests = f.requests \o @]

fetchAbiOf(e, id, entries, seen, fc, mc) ==
    IF id = Null
    THEN [fetchAbis(entries, seen, fc, mc) EXCEPT !.threw = TRUE]
    ELSE fetchAbisAfter(e, fetchFunction(seen, fc, mc, id[1], id[2], id[3]), entries, seen)

fetchAbis(entries, seen, fc, mc) ==
    IF entries = <<>>
    THEN [threw |-> FALSE, results |-> <<>>, functionAbiCache |-> fc, moduleAbiCache |-> mc,
          requests |-> <<>>]
    ELSE fetchAbiOf(Head(entries), parseFunctionId(Head(entries).step.function),
                    Tail(entries), seen, fc, mc)

ValidationWarning(label, code, message) ==
    [stepLabel |-> label, code |-> code, message |-> message]

\* The loop over the return types of one step; i counts from 0 as in the source.
RECURSIVE detectNonDroppable(_, _, _, _)
pushNonDroppable(hasDrop, i, rest) ==
    IF hasDrop = "false" THEN [rest EXCEPT !.nonDroppableReturns = <<i>> \o @] ELSE rest

detectAfter(d, returnTypes, i) ==
    [pushNonDroppable(d.hasDrop, i,
        detectNonDroppable(returnTypes, i + 1, d.functionAbiCache, d.moduleAbiCache))
        EXCEPT !.requests = d.requests \o @]

detectReturn(structId, returnTypes, i, fc, mc) ==
    IF isStructType(returnTypes[i + 1]) /\ structId # Null
    THEN detectAfter(checkDropAbility(fc, mc, structId[1], structId[2], structId[3]),
                     returnTypes, i)
    ELSE detectNonDroppable(returnTypes, i + 1, fc, mc)

detectNonDroppable(returnTypes, i, fc, mc) ==
    IF i >= Len(returnTypes)
    THEN [nonDroppableReturns |-> <<>>, functionAbiCache |-> fc, moduleAbiCache |-> mc,
          requests |-> <<>>]
    ELSE detectReturn(parseStructId(returnTypes[i + 1]), returnTypes, i, fc, mc)

\* The mismatch loop looking at the leading signer positions only.
RECURSIVE signerMismatchesLeadingOnly(_, _, _, _, _)
signerMismatchesLeadingOnly(label, args, signerCount, nonSignerParams, i) ==
    IF i >= Len(args) \/ i >= signerCount THEN <<>>
    ELSE (IF args[i + 1].kind # "signer"
          THEN <<ValidationWarning(label, "SIGNER_MISMATCH",
                     [arg |-> i, expected |-> T_SIGNER_REF, got |-> args[i + 1].kind])>>
          ELSE <<>>)
         \o signerMismatchesLeadingOnly(label, args, signerCount, nonSignerParams, i + 1)

\* The "Signer vs address mismatch check" loop; i counts from 0 as in the source.
RECURSIVE signerMismatches(_, _, _, _, _)
signerMismatches(label, args, signerCount, nonSignerParams, i) ==
    IF i >= Len(args) THEN <<>>
    ELSE LET a == args[i + 1]
             rest == signerMismatches(label, args, signerCount, nonSignerParams, i + 1)
         IN IF i < signerCount
            THEN IF a.kind # "signer"
                 THEN <<ValidationWarning(label, "SIGNER_MISMATCH",
                            [arg |-> i, expected |-> T_SIGNER_REF, got |-> a.kind])>> \o rest
                 ELSE rest
            ELSE IF a.kind = "signer"
                 THEN <<ValidationWarning(label, "SIGNER_MISMATCH",
                            [arg |-> i, got |-> "signer",
                             paramType |-> IF i - signerCount + 1 <= Len(nonSignerParams)
                                           THEN nonSignerParams[i - signerCount + 1]
                                           ELSE <<"unknown">>])>> \o rest
                 ELSE rest

\* The signer count checked for an excess only.
signerCountExcessOnly(label, signerArgs, signerCount) ==
    IF Len(signerArgs) > signerCount
    THEN <<ValidationWarning(label, "SIGNER_COUNT_ERROR",
               [expects |-> signerCount, provided |-> Len(signerArgs)])>>
    ELSE <<>>

\* if (signerArgs.length !== signerCount) push SIGNER_COUNT_ERROR
signerCountCheck(label, signerArgs, signerCount) ==
    IF Len(signerArgs) # signerCount
    THEN <<ValidationWarning(label, "SIGNER_COUNT_ERROR",
               [expects |-> signerCount, provided |-> Len(signerArgs)])>>
    ELSE <<>>

\* The non-signer argument count checked for a shortage only.
argCountShortageOnly(label, nonSignerArgs, nonSignerParams) ==
    IF Len(nonSignerArgs) < Len(nonSignerParams)
    THEN <<ValidationWarning(label, "ARG_COUNT_ERROR",
               [expected |-> Len(nonSignerParams), got |-> Len(nonSignerArgs)])>>
    ELSE <<>>

\* if (nonSignerArgs.length !== nonSignerParams.length) push ARG_COUNT_ERROR
argCountCheck(label, nonSignerArgs, nonSignerParams) ==
    IF Len(nonSignerArgs) # Len(nonSignerParams)
    THEN <<ValidationWarning(label, "ARG_COUNT_ERROR",
               [expected |-> Len(nonSignerParams), got |-> Len(nonSignerArgs)])>>
    ELSE <<>>

\* 2. One turn of the loop over the fetched results, for a step whose ABI was
\* found; nd is what the loop over its return types gave.
validateFound(label, step, abi, signerCount, nonSignerParams, nd) ==
    LET expectedTypeArgs == Len(abi.generic_type_params)
        providedTypeArgs == Len(step.typeArguments)
        signerArgs == SelectSeq(step.args, LAMBDA a : a.kind = "signer")
        nonSignerArgs == SelectSeq(step.args, LAMBDA a : a.kind # "signer")
    IN [warnings |->
           (IF providedTypeArgs # expectedTypeArgs
            THEN <<ValidationWarning(label, "TYPE_ARG_COUNT_ERROR",
                       [expected |-> expectedTypeArgs, got |-> providedTypeArgs])>>
            ELSE <<>>)
           \o signerCountCheck(label, signerArgs, signerCount)
           \o argCountCheck(label, nonSignerArgs, nonSignerParams)
           \o signerMismatches(label, step.args, signerCount, nonSignerParams, 0),
        validations |->
           <<[label |-> label, function |-> step.function, abi |-> abi,
              signerCount |-> signerCount, params |-> nonSignerParams,
              returnTypes |-> abi.return,
              nonDroppableReturns |-> nd.nonDroppableReturns]>>,
        functionAbiCache |-> nd.functionAbiCache,
        moduleAbiCache |-> nd.moduleAbiCache,
        requests |-> nd.requests]

\* validateStep without the `continue`: a step whose function was not found goes
\* on to the argument count check, against no parameters.
validateStepNoContinue(r, fc, mc) ==
    IF r.abi = Undefined
    THEN [warnings |-> <<ValidationWarning(r.label, "FUNCTION_NOT_FOUND_ERROR",
                                           [function |-> r.step.function])>>
                       \o (IF Len(r.step.args) # 0
                           THEN <<ValidationWarning(r.label, "ARG_COUNT_ERROR",
                                      [expected |-> 0, got |-> Len(r.step.args)])>>
                           ELSE <<>>),
          validations |-> <<>>,
          functionAbiCache |-> fc, moduleAbiCache |-> mc, requests |-> <<>>]
    ELSE validateFound(r.label, r.step, r.abi, countSignerParams(r.abi.params),
                       SubSeq(r.abi.params, countSignerParams(r.abi.params) + 1,
                              Len(r.abi.params)),
                       detectNonDroppable(r.abi.return, 0, fc, mc))

validateStep(r, fc, mc) ==
    IF r.abi = Undefined
    THEN [warnings |-> <<ValidationWarning(r.label, "FUNCTION_NOT_FOUND_ERROR",
                                           [function |-> r.step.function])>>,
          validations |-> <<>>,
          functionAbiCache |-> fc, moduleAbiCache |-> mc, requests |-> <<>>]
    ELSE validateFound(r.label, r.step, r.abi, countSignerParams(r.abi.params),
                       SubSeq(r.abi.params, countSignerParams(r.abi.params) + 1,
                              Len(r.abi.params)),
                       detectNonDroppable(r.abi.return, 0, fc, mc))

RECURSIVE validateEach(_, _, _)
validateAfter(v, results) ==
    [validateEach(results, v.functionAbiCache, v.moduleAbiCache)
        EXCEPT !.warnings = v.warnings \o @, !.validations = v.validations \o @,
               !.requests = v.requests \o @]

validateEach(results, fc, mc) ==
    IF results = <<>>
    THEN [warnings |-> <<>>, validations |-> <<>>,
          functionAbiCache |-> fc, moduleAbiCache |-> mc, requests |-> <<>>]
    ELSE validateAfter(validateStep(Head(results), fc, mc), Tail(results))

\* consumedRefs that leaves out the Refs a step makes to its own returns.
consumedRefsOfOtherSteps(entries) ==
    UNION { {<<entries[s].step.args[j].step, entries[s].step.args[j].returnIndex>> :
                j \in {j \in 1..Len(entries[s].step.args) :
                          /\ entries[s].step.args[j].kind = "ref"
                          /\ entries[s].step.args[j].step # entries[s].label}} :
            s \in 1..Len(entries) }

\* 3. consumedRefs: the `${arg.step}:${arg.returnIndex}` of every ref argument.
consumedRefs(entries) ==
    UNION { {<<entries[s].step.args[j].step, entries[s].step.args[j].returnIndex>> :
                j \in {j \in 1..Len(entries[s].step.args) :
                          entries[s].step.args[j].kind = "ref"}} :
            s \in 1..Len(entries) }

unconsumedOf(v, consumed) ==
    LET open == SelectSeq(v.nonDroppableReturns, LAMBDA idx : <<v.label, idx>> \notin consumed)
    IN [k \in 1..Len(open) |->
           ValidationWarning(v.label, "UNCONSUMED_RESOURCE",
               [return |-> open[k], type |-> v.returnTypes[open[k] + 1]])]

unconsumedResources(validations, entries) ==
    Flat([k \in 1..Len(validations) |-> unconsumedOf(validations[k], consumedRefs(entries))])

\* validateSteps: threw stands for the rejection of a malformed function id, which
\* leaves the caches as the calls already made fill them.
crossStep(each, entries) ==
    [threw |-> FALSE,
     validations |-> each.validations,
     warnings |-> each.warnings \o unconsumedResources(each.validations, entries),
     functionAbiCache |-> each.functionAbiCache,
     moduleAbiCache |-> each.moduleAbiCache,
     requests |-> each.requests]

validateFetched(fetched, entries) ==
    IF fetched.threw
    THEN [threw |-> TRUE, validations |-> <<>>, warnings |-> <<>>,
          functionAbiCache |-> fetched.functionAbiCache,
          moduleAbiCache |-> fetched.moduleAbiCache,
          requests |-> fetched.requests]
    ELSE [crossStep(validateEach(fetched.results, fetched.functionAbiCache,
                                 fetched.moduleAbiCache), entries)
             EXCEPT !.requests = fetched.requests \o @]

validateSteps(entries, fc, mc) == validateFetched(fetchAbis(entries, fc, fc, mc), entries)

(***************************************************************************)
(* Argument resolution and the builder.                                    *)
(***************************************************************************)
\* CallArgument of the script composer: the signer, or an output of an earlier
\* call together with how it is passed.
CallArgumentSigner(index) == [kind |-> "Signer", index |-> index]
CallArgumentResult(call, return) ==
    [kind |-> "PreviousResult", call |-> call, return |-> return, operation |-> "move"]
Raw(value) == [kind |-> "Raw", value |-> value]

applyRefMode(callArg, mode) ==
    CASE mode = "move" -> callArg
      [] mode = "copy" -> [callArg EXCEPT !.operation = "copy"]
      [] mode = "borrow" -> [callArg EXCEPT !.operation = "borrow"]
      [] mode = "borrow_mut" -> [callArg EXCEPT !.operation = "borrow_mut"]

\* resolveArg with the index compared by > : an index equal to the number of
\* outputs reads past the end of the array, which gives undefined.
resolveArgOffByOne(a, signer, results) ==
    CASE a.kind = "signer" -> [threw |-> FALSE, value |-> signer]
      [] a.kind = "literal" -> [threw |-> FALSE, value |-> Raw(a.value)]
      [] a.kind = "ref" ->
            IF ~MapHas(results, a.step)
            THEN [threw |-> TRUE,
                  error |-> [kind |-> "UnknownStep", step |-> a.step,
                             available |-> DOMAIN results]]
            ELSE IF a.returnIndex > Len(results[a.step])
            THEN [threw |-> TRUE,
                  error |-> [kind |-> "ReturnIndexOutOfBounds", step |-> a.step,
                             has |-> Len(results[a.step]), requested |-> a.returnIndex]]
            ELSE IF a.returnIndex = Len(results[a.step])
            THEN [threw |-> FALSE, value |-> Undefined]
            ELSE [threw |-> FALSE,
                  value |-> applyRefMode(results[a.step][a.returnIndex + 1], a.mode)]

\* resolveArg handing on the first output of the step a Ref names, whatever its
\* returnIndex.
resolveArgFirstOutput(a, signer, results) ==
    CASE a.kind = "signer" -> [threw |-> FALSE, value |-> signer]
      [] a.kind = "literal" -> [threw |-> FALSE, value |-> Raw(a.value)]
      [] a.kind = "ref" ->
            IF ~MapHas(results, a.step)
            THEN [threw |-> TRUE,
                  error |-> [kind |-> "UnknownStep", step |-> a.step,
                             available |-> DOMAIN results]]
            ELSE IF a.returnIndex >= Len(results[a.step])
            THEN [threw |-> TRUE,
                  error |-> [kind |-> "ReturnIndexOutOfBounds", step |-> a.step,
                             has |-> Len(results[a.step]), requested |-> a.returnIndex]]
            ELSE [threw |-> FALSE, value |-> applyRefMode(results[a.step][1], a.mode)]

\* resolveArg: threw tells whether it threw, and then error is the Error.
resolveArg(a, signer, results) ==
    CASE a.kind = "signer" -> [threw |-> FALSE, value |-> signer]
      [] a.kind = "literal" -> [threw |-> FALSE, value |-> Raw(a.value)]
      [] a.kind = "ref" ->
            IF ~MapHas(results, a.step)
            THEN [threw |-> TRUE,
                  error |-> [kind |-> "UnknownStep", step |-> a.step,
                             available |-> DOMAIN results]]
            ELSE IF a.returnIndex >= Len(results[a.step])
            THEN [threw |-> TRUE,
                  error |-> [kind |-> "ReturnIndexOutOfBounds", step |-> a.step,
                             has |-> Len(results[a.step]), requested |-> a.returnIndex]]
            ELSE [threw |-> FALSE,
                  value |-> applyRefMode(results[a.step][a.returnIndex + 1], a.mode)]

\* The arguments resolved to the end, the Error of the last one that throws kept.
resolveArgsLastError(args, signer, results) ==
    LET rs == [j \in 1..Len(args) |-> resolveArg(args[j], signer, results)]
        bad == {j \in 1..Len(args) : rs[j].threw}
    IN IF bad = {}
       THEN [threw |-> FALSE, values |-> [j \in 1..Len(args) |-> rs[j].value]]
       ELSE [threw |-> TRUE, error |-> rs[CHOOSE j \in bad : \A k \in bad : j >= k].error]

\* step.args.map((a) => resolveArg(a, signer, resultsMap)): the first argument that
\* throws ends the map.
resolveArgs(args, signer, results) ==
    LET rs == [j \in 1..Len(args) |-> resolveArg(args[j], signer, results)]
        bad == {j \in 1..Len(args) : rs[j].threw}
    IN IF bad = {}
       THEN [threw |-> FALSE, values |-> [j \in 1..Len(args) |-> rs[j].value]]
       ELSE [threw |-> TRUE, error |-> rs[CHOOSE j \in bad : \A k \in bad : j <= k].error]

\* code.endsWith("_ERROR"), on the codes validateSteps emits
EndsWithError(code) ==
    code \in {"FUNCTION_NOT_FOUND_ERROR", "TYPE_ARG_COUNT_ERROR",
              "SIGNER_COUNT_ERROR", "ARG_COUNT_ERROR"}

\* Only a function that was not found counted as a hard error.
hardErrorsNotFoundOnly(warnings) ==
    SelectSeq(warnings, LAMBDA w : w.code = "FUNCTION_NOT_FOUND_ERROR")

hardErrors(warnings) == SelectSeq(warnings, LAMBDA w : EndsWithError(w.code))

\* composer.addBatchedCalls: one CallArgument per value the function returns, as
\* the composer reads it from the module on chain; it throws for a function that
\* is not there.
addBatchedCalls(call, input) ==
    LET id == input.function
        known == {i \in 1..Len(ON_CHAIN[<<id[1], id[2]>>].abi.exposed_functions) :
                     ON_CHAIN[<<id[1], id[2]>>].abi.exposed_functions[i].name = id[3]}
        fn == ON_CHAIN[<<id[1], id[2]>>].abi.exposed_functions[CHOOSE i \in known : TRUE]
    IN IF Len(id) < 3 \/ <<id[1], id[2]>> \notin DOMAIN ON_CHAIN \/ known = {}
       THEN [threw |-> TRUE]
       ELSE [threw |-> FALSE,
             results |-> [i \in 1..Len(fn.return) |-> CallArgumentResult(call, i - 1)]]

BatchedCalls == SelectSeq(buildLog, LAMBDA c : c.call = "addBatchedCalls")

\* What composed holds while a simulate() call runs.
Pending == [pending |-> TRUE]

SimulateRunning == composed = Pending /\ buildPc \in {"compose", "built"}

BuildNotRunning == buildPc \in {"idle", "built", "thrown"} /\ ~SimulateRunning

\* What the watcher of the node's requests notes of one validateSteps call.
Watched(requests) == IF fetchLog = Unwatched THEN Unwatched ELSE requests

\* DynamicComposer.addStep; a duplicate label throws and changes nothing.
\* addStep without the duplicate-label check.
addStepToUnchecked(entries, label, step) ==
    [threw |-> FALSE, steps |-> Append(entries, [label |-> label, step |-> step])]

\* addStep on the step list of a composer: the list after the call, or the
\* Error thrown for a label the list holds already.
addStepTo(entries, label, step) ==
    IF \E i \in 1..Len(entries) : entries[i].label = label
    THEN [threw |-> TRUE, error |-> [kind |-> "DuplicateLabel", label |-> label],
          steps |-> entries]
    ELSE [threw |-> FALSE, steps |-> Append(entries, [label |-> label, step |-> step])]

\* What an addStep call does to the composer, whenever it is made.
addStepCall(label, step) ==
    /\ LET added == addStepTo(steps, label, step)
       IN IF added.threw
          THEN /\ declareError' = added.error
               /\ UNCHANGED <<steps, validated>>
          ELSE /\ steps' = added.steps
               /\ validated' = Null
               /\ declareError' = Null
    /\ UNCHANGED <<lastWarnings, functionAbiCache, moduleAbiCache, buildPc, resultsMap,
                   buildLog, buildError, fetchLog, composed>>

\* addStep called while no build() or simulate() of the composer is suspended.
addStep(label, step) ==
    /\ BuildNotRunning
    /\ addStepCall(label, step)
    /\ UNCHANGED <<callVars, diagVars, dryVars, fetchVars>>

\* DynamicComposer.validate
validate ==
    /\ BuildNotRunning
    /\ LET v == validateSteps(steps, functionAbiCache, moduleAbiCache)
       IN /\ validated' = IF v.threw THEN [threw |-> TRUE]
                          ELSE [threw |-> FALSE, validations |-> v.validations,
                                warnings |-> v.warnings]
          /\ functionAbiCache' = v.functionAbiCache
          /\ moduleAbiCache' = v.moduleAbiCache
          /\ fetchLog' = Watched(v.requests)
    /\ UNCHANGED <<steps, lastWarnings, buildPc, resultsMap, buildLog, buildError,
                   composed, declareError>>
    /\ UNCHANGED <<callVars, diagVars, dryVars, fetchVars>>

\* The body of DynamicComposer.build, from its entry to the call of
\* BuildScriptComposerTransaction
buildEntered ==
    /\ resultsMap' = EmptyMap
    /\ IF Len(steps) = 0
       THEN /\ buildPc' = "thrown"
            /\ buildError' = [kind |-> "NoSteps"]
            /\ buildLog' = <<>>
            /\ UNCHANGED <<lastWarnings, functionAbiCache, moduleAbiCache, fetchLog>>
       ELSE LET v == validateSteps(steps, functionAbiCache, moduleAbiCache)
                hard == hardErrors(v.warnings)
            IN /\ functionAbiCache' = v.functionAbiCache
               /\ moduleAbiCache' = v.moduleAbiCache
               /\ fetchLog' = Watched(v.requests)
               /\ IF v.threw
                  THEN /\ buildPc' = "thrown"
                       /\ buildError' = [kind |-> "InvalidFunctionId"]
                       /\ buildLog' = <<[call |-> "validateSteps"]>>
                       /\ UNCHANGED lastWarnings
                  ELSE /\ lastWarnings' = v.warnings
                       /\ IF Len(hard) > 0
                          THEN /\ buildPc' = "thrown"
                               /\ buildError' = [kind |-> "ValidationFailed",
                                                 hardErrors |-> hard]
                               /\ buildLog' = <<[call |-> "validateSteps"]>>
                          ELSE /\ buildPc' = "compose"
                               /\ buildError' = Null
                               /\ buildLog' = <<[call |-> "validateSteps"],
                                                [call |-> "BuildScriptComposerTransaction"]>>
    /\ UNCHANGED <<steps, validated, declareError>>

\* build() entered while no build() or simulate() of the composer is suspended.
buildBody ==
    /\ BuildNotRunning
    /\ buildEntered
    /\ UNCHANGED <<callVars, diagVars, dryVars, fetchVars>>

\* DynamicComposer.build called by the user
build == buildBody /\ UNCHANGED composed

\* DynamicComposer.simulate up to its build(): when build() throws, simulate()
\* throws with it and returns nothing.
simulate ==
    /\ buildBody
    /\ composed' = IF buildPc' = "thrown" THEN Null ELSE Pending

\* One turn of the builder callback's loop over the steps.
builderStep ==
    /\ buildPc = "compose"
    /\ Len(BatchedCalls) < Len(steps)
    /\ LET entry == steps[Len(BatchedCalls) + 1]
           signer == CallArgumentSigner(0)
           resolvedArgs == resolveArgs(entry.step.args, signer, resultsMap)
           input == [function |-> entry.step.function,
                     typeArguments |-> entry.step.typeArguments,
                     functionArguments |-> resolvedArgs.values]
           callResults == addBatchedCalls(Len(BatchedCalls), input)
       IN IF resolvedArgs.threw
          THEN /\ buildPc' = "thrown"
               /\ buildError' = resolvedArgs.error
               /\ UNCHANGED <<buildLog, resultsMap>>
          ELSE /\ buildLog' = Append(buildLog, [call |-> "addBatchedCalls", label |-> entry.label,
                                                input |-> input])
               /\ IF callResults.threw
                  THEN /\ buildPc' = "thrown"
                       /\ buildError' = [kind |-> "ComposerError"]
                       /\ UNCHANGED resultsMap
                  ELSE /\ resultsMap' = MapSet(resultsMap, entry.label, callResults.results)
                       /\ UNCHANGED <<buildPc, buildError>>
    /\ composed' = IF buildPc' = "thrown" /\ composed = Pending THEN Null ELSE composed
    /\ UNCHANGED <<steps, lastWarnings, functionAbiCache, moduleAbiCache, validated,
                   fetchLog, declareError>>
    /\ UNCHANGED <<callVars, diagVars, dryVars, fetchVars>>

\* The builder callback returns the composer and build() the transaction.
builderReturn ==
    /\ buildPc = "compose"
    /\ Len(BatchedCalls) = Len(steps)
    /\ buildPc' = "built"
    /\ UNCHANGED <<steps, lastWarnings, functionAbiCache, moduleAbiCache, validated,
                   resultsMap, buildLog, buildError, fetchLog, composed, declareError>>
    /\ UNCHANGED <<callVars, diagVars, dryVars, fetchVars>>

(***************************************************************************)
(* The graphs the composer is driven with.                                 *)
(***************************************************************************)
\* The return indexes a Ref is drawn from are 0..MaxReturnIndex.
MaxReturnIndex == 1

\* Argument lists are as long as the longest parameter list on chain: a longer
\* list only adds to the count mismatches.
MaxArgs ==
    LET lengths == UNION { {Len(f.params) : f \in Range(ON_CHAIN[k].abi.exposed_functions)} :
                           k \in DOMAIN ON_CHAIN }
    IN CHOOSE n \in lengths : \A m \in lengths : m <= n

\* The labels, in the order in which the steps are declared.
StepLabels == <<"a", "b">>
StepLabelInputs == Range(StepLabels)
RefModeInputs == {"move"}

ArgInputs ==
    {SignerArg, LiteralArg(100)}
    \cup {RefArg(l, i, m) : l \in StepLabelInputs, i \in 0..MaxReturnIndex, m \in RefModeInputs}

FN_WITHDRAW == <<"0x1", "vault", "withdraw">>
FN_DEPOSIT == <<"0x1", "vault", "deposit">>
FN_OPEN == <<"0x1", "vault", "open">>
FN_FAKE == <<"0x1", "fake", "function">>

FunctionInputs == {FN_WITHDRAW, FN_DEPOSIT, FN_OPEN, FN_FAKE}

StepInputs ==
    {ComposerStep(f, <<>>, args) : f \in FunctionInputs, args \in SeqsUpTo(ArgInputs, MaxArgs)}

\* The steps build() is driven with: calls with MaxArgs arguments, which is what
\* the functions on chain take, so that graphs without a hard finding are common.
BuildStepInputs ==
    {s \in StepInputs :
        /\ Len(s.args) = MaxArgs
        /\ s.function = FN_FAKE => s.args = <<SignerArg, LiteralArg(100)>>}

\* The steps of inputs that can be declared after those of entries.
StepInputsAfter(entries, inputs) == IF Len(entries) < Len(StepLabels) THEN inputs ELSE {}

ComposerInit ==
    /\ CallsIdle
    /\ DiagIdle
    /\ DryIdle
    /\ ComposerIdle

NextValidate ==
    \/ \E step \in StepInputsAfter(steps, StepInputs) :
          addStep(StepLabels[Len(steps) + 1], step)
    \/ validate

SpecValidate == ComposerInit /\ [][NextValidate]_vars

NextBuild ==
    \/ \E step \in StepInputsAfter(steps, BuildStepInputs) :
          addStep(StepLabels[Len(steps) + 1], step)
    \/ build
    \/ builderStep
    \/ builderReturn

SpecBuild == ComposerInit /\ [][NextBuild]_vars

(***************************************************************************)
(* Properties of validateSteps.                                            *)
(***************************************************************************)
\* What the chain declares, read off ON_CHAIN without the validator's caches.
DeclaredFunctions(functionId) ==
    IF Len(functionId) < 3 \/ <<functionId[1], functionId[2]>> \notin DOMAIN ON_CHAIN
    THEN {}
    ELSE {f \in Range(ON_CHAIN[<<functionId[1], functionId[2]>>].abi.exposed_functions) :
             f.name = functionId[3]}

SignatureFound(functionId) == DeclaredFunctions(functionId) # {}

SignatureOf(functionId) == CHOOSE f \in DeclaredFunctions(functionId) : TRUE

\* The number of leading signer parameters: the longest prefix of signer types.
LeadingSigners(params) ==
    Cardinality({n \in 1..Len(params) :
                    \A j \in 1..n : params[j] = T_SIGNER_REF \/ params[j] = T_SIGNER})

SignerArgsOf(step) == Cardinality({j \in 1..Len(step.args) : step.args[j].kind = "signer"})

ValidateReturned == validated # Null /\ ~validated.threw

\* The positions of the findings with this code about this step.
FindingsAbout(warnings, code, label) ==
    {k \in 1..Len(warnings) : warnings[k].code = code /\ warnings[k].stepLabel = label}

\* C5: for every step whose function signature was found, validateSteps emits
\* exactly one SIGNER_COUNT_ERROR, citing the expected and the supplied count, when
\* the number of Signer args of the step differs from the function's number of
\* leading signer parameters, and none when the two are equal.
C5_SignerCount ==
    ValidateReturned =>
        \A s \in 1..Len(steps) :
            SignatureFound(steps[s].step.function) =>
                LET expected == LeadingSigners(SignatureOf(steps[s].step.function).params)
                    supplied == SignerArgsOf(steps[s].step)
                    found == FindingsAbout(validated.warnings, "SIGNER_COUNT_ERROR",
                                           steps[s].label)
                IN IF supplied # expected
                   THEN /\ Cardinality(found) = 1
                        /\ \A k \in found :
                              /\ validated.warnings[k].message.expects = expected
                              /\ validated.warnings[k].message.provided = supplied
                   ELSE found = {}

\* Two Signer args handed to withdraw, which expects one, next to a call of open
\* with the two signers it expects.
C5_Witness ==
    /\ ValidateReturned
    /\ Len(steps) = 2
    /\ steps[1].step = ComposerStep(FN_WITHDRAW, <<>>, <<SignerArg, SignerArg>>)
    /\ steps[2].step = ComposerStep(FN_OPEN, <<>>, <<SignerArg, SignerArg>>)
    /\ \E k \in 1..Len(validated.warnings) :
          /\ validated.warnings[k].code = "SIGNER_COUNT_ERROR"
          /\ validated.warnings[k].stepLabel = "a"
          /\ validated.warnings[k].message = [expects |-> 1, provided |-> 2]
    /\ FindingsAbout(validated.warnings, "SIGNER_COUNT_ERROR", "b") = {}

\* A return type is non-droppable when it names a struct that its module, on
\* chain, declares without the drop ability.
DeclaredWithoutDrop(typeStr) ==
    /\ Len(typeStr) >= 3
    /\ <<typeStr[1], typeStr[2]>> \in DOMAIN ON_CHAIN
    /\ \E st \in Range(ON_CHAIN[<<typeStr[1], typeStr[2]>>].abi.structs) :
          st.name = typeStr[3] /\ "drop" \notin st.abilities

\* Some Ref of the graph, in any step and at any position, targets return i of
\* the step labelled label.
Targeted(label, i) ==
    \E t \in 1..Len(steps) : \E j \in 1..Len(steps[t].step.args) :
        /\ steps[t].step.args[j].kind = "ref"
        /\ steps[t].step.args[j].step = label
        /\ steps[t].step.args[j].returnIndex = i

UnconsumedAbout(label, i) ==
    {k \in FindingsAbout(validated.warnings, "UNCONSUMED_RESOURCE", label) :
        validated.warnings[k].message.return = i}

\* C4: validateSteps emits exactly one UNCONSUMED_RESOURCE finding, naming step s
\* and index i, for each non-droppable return (s, i) that no Ref anywhere in the
\* graph targets, and none for a return that at least one Ref targets.
C4_UnconsumedResource ==
    ValidateReturned =>
        \A s \in 1..Len(steps) :
            SignatureFound(steps[s].step.function) =>
                LET return == SignatureOf(steps[s].step.function).return
                IN \A i \in 0..(Len(return) - 1) :
                      /\ (DeclaredWithoutDrop(return[i + 1]) /\ ~Targeted(steps[s].label, i))
                            => Cardinality(UnconsumedAbout(steps[s].label, i)) = 1
                      /\ Targeted(steps[s].label, i)
                            => UnconsumedAbout(steps[s].label, i) = {}

\* Two withdrawals: the asset of the first is targeted by the second, the asset
\* of the second by nobody, and the only finding is about the second.
C4_Witness ==
    /\ ValidateReturned
    /\ Len(steps) = 2
    /\ steps[1].step.function = FN_WITHDRAW
    /\ steps[2].step.function = FN_WITHDRAW
    /\ Targeted("a", 1)
    /\ ~Targeted("b", 1)
    /\ Cardinality(UnconsumedAbout("b", 1)) = 1
    /\ UnconsumedAbout("a", 1) = {}

(***************************************************************************)
(* Properties of DynamicComposer.build.                                    *)
(***************************************************************************)
CollaboratorCalls ==
    {k \in 1..Len(buildLog) :
        buildLog[k].call \in {"BuildScriptComposerTransaction", "addBatchedCalls"}}

HardFinding(warnings) == \E k \in 1..Len(warnings) : EndsWithError(warnings[k].code)

\* C1: build() runs the ABI validation before it calls the script-composition
\* collaborator, and when the validation returned a finding whose code ends in
\* "_ERROR" it throws without any call of BuildScriptComposerTransaction or
\* addBatchedCalls.
C1_ValidationGatesComposition ==
    /\ CollaboratorCalls # {} =>
          /\ buildLog[1].call = "validateSteps"
          /\ 1 \notin CollaboratorCalls
          /\ ~HardFinding(lastWarnings)
    /\ (buildLog # <<>> /\ HardFinding(lastWarnings)) =>
          /\ buildPc = "thrown"
          /\ buildError.kind = "ValidationFailed"
          /\ Len(buildError.hardErrors) >= 1
          /\ CollaboratorCalls = {}

\* A withdrawal without its signer, so with SIGNER_COUNT_ERROR, whose build threw
\* after the validation and nothing else.
C1_Witness ==
    /\ Len(steps) = 1
    /\ steps[1].step = ComposerStep(FN_WITHDRAW, <<>>, <<LiteralArg(100), LiteralArg(100)>>)
    /\ buildPc = "thrown"
    /\ buildLog = <<[call |-> "validateSteps"]>>
    /\ \E k \in 1..Len(lastWarnings) : lastWarnings[k].code = "SIGNER_COUNT_ERROR"

\* The step the builder resolves next, once build() is in the builder's loop.
NextToResolve == Len(BatchedCalls) + 1

Resolving == buildPc = "compose" /\ NextToResolve <= Len(steps)

\* The labels of the steps declared before step k: those with a recorded result
\* when step k is resolved.
LabelsBefore(k) == {steps[t].label : t \in 1..(k - 1)}

PositionOf(label) == CHOOSE t \in 1..Len(steps) : steps[t].label = label

\* The number of values the function of the step labelled label returns.
ArityOf(label) == Len(SignatureOf(steps[PositionOf(label)].step.function).return)

IsRef(a) == a.kind = "ref"

\* Argument a of step k names a step without a recorded result.
UnknownRef(a, k) == IsRef(a) /\ a.step \notin LabelsBefore(k)

\* Argument a of step k names a recorded step and an index past its outputs.
OutOfBoundsRef(a, k) ==
    IsRef(a) /\ a.step \in LabelsBefore(k) /\ a.returnIndex >= Len(resultsMap[a.step])

FailedWith(kind) ==
    /\ buildPc' = "thrown"
    /\ buildError'.kind = kind
    /\ buildLog' = buildLog
    /\ resultsMap' = resultsMap

\* C2 as stated: a step with a Ref to a label without a recorded result fails with
\* the unknown-step error, whatever else the step holds.
C2_Original ==
    [][ (Resolving /\ \E j \in 1..Len(steps[NextToResolve].step.args) :
                         UnknownRef(steps[NextToResolve].step.args[j], NextToResolve))
        => FailedWith("UnknownStep") ]_vars

\* C2: when the step being resolved holds a Ref to a label without a recorded
\* result (never declared, declared later, or the step itself), the resolution
\* fails and no composition call is made for that step or a later one; the error
\* is the unknown-step error, unless an argument before the first such Ref is a
\* Ref past the outputs of a recorded step, and then it is the
\* return-index-out-of-bounds error.
C2_UnknownStepStopsBuild ==
    [][ Resolving =>
          LET args == steps[NextToResolve].step.args
              unknown == {j \in 1..Len(args) : UnknownRef(args[j], NextToResolve)}
              first == CHOOSE j \in unknown : \A i \in unknown : j <= i
          IN unknown # {} =>
                IF \E i \in 1..(first - 1) : OutOfBoundsRef(args[i], NextToResolve)
                THEN FailedWith("ReturnIndexOutOfBounds")
                ELSE FailedWith("UnknownStep") /\ buildError'.step = args[first].step ]_vars

\* The second step names itself, after the first was composed.
C2_Witness ==
    /\ buildPc = "thrown"
    /\ buildError.kind = "UnknownStep"
    /\ buildError.step = "b"
    /\ Len(steps) = 2
    /\ Len(BatchedCalls) = 1
    /\ DOMAIN resultsMap = {"a"}

\* C3: when the step being resolved holds, after arguments that resolve, a Ref to
\* a recorded step whose returnIndex is at least the number of outputs recorded
\* for it, the resolution fails with the return-index-out-of-bounds error; when
\* every Ref of the step names a recorded step and an index below the number of
\* its outputs, the resolution does not fail and the call is composed with those
\* outputs as its arguments.
C3_ReturnIndexBounds ==
    [][ Resolving =>
          LET k == NextToResolve
              args == steps[k].step.args
              bad == {j \in 1..Len(args) : UnknownRef(args[j], k) \/ OutOfBoundsRef(args[j], k)}
              first == CHOOSE j \in bad : \A i \in bad : j <= i
          IN /\ (bad # {} /\ OutOfBoundsRef(args[first], k)) =>
                   /\ FailedWith("ReturnIndexOutOfBounds")
                   /\ buildError'.step = args[first].step
                   /\ buildError'.requested = args[first].returnIndex
                   /\ buildError'.has = ArityOf(args[first].step)
             /\ bad = {} =>
                   /\ buildPc' = "compose"
                   /\ Len(buildLog') = Len(buildLog) + 1
                   /\ buildLog'[Len(buildLog')].label = steps[k].label
                   /\ \A j \in 1..Len(args) :
                         IsRef(args[j]) =>
                            /\ 0 <= args[j].returnIndex
                            /\ args[j].returnIndex < ArityOf(args[j].step)
                            /\ buildLog'[Len(buildLog')].input.functionArguments[j] =
                                  [kind |-> "PreviousResult",
                                   call |-> PositionOf(args[j].step) - 1,
                                   return |-> args[j].returnIndex,
                                   operation |-> args[j].mode] ]_vars

\* Index 1 asked of open, which returns one value: the index equals the number of
\* outputs.
C3_Witness ==
    /\ buildPc = "thrown"
    /\ buildError.kind = "ReturnIndexOutOfBounds"
    /\ buildError.has = 1
    /\ buildError.requested = 1
    /\ Len(BatchedCalls) = 1

(***************************************************************************)
(* DynamicComposer.simulate, and the composer with the node's requests     *)
(* watched.                                                                *)
(***************************************************************************)
\* The ComposedResult with its warnings left empty.
ComposedResultNoWarnings(simulation, warnings, labels) ==
    [success |-> simulation.success,
     simulation |-> simulation,
     errors |-> IF simulation.success THEN <<>>
                ELSE diagnoseVmStatus(simulation.vmStatus, "none"),
     warnings |-> <<>>,
     balanceDiff |-> Null,
     stepLabels |-> labels]

\* The object simulate() returns, with errors left empty whatever the simulation.
ComposedResultNoErrors(simulation, warnings, labels) ==
    [success |-> simulation.success,
     simulation |-> simulation,
     errors |-> <<>>,
     warnings |-> warnings,
     balanceDiff |-> Null,
     stepLabels |-> labels]

\* The object simulate() returns; no token is tracked, so balanceDiff is null.
ComposedResult(simulation, warnings, labels) ==
    [success |-> simulation.success,
     simulation |-> simulation,
     errors |-> IF simulation.success THEN <<>>
                ELSE diagnoseVmStatus(simulation.vmStatus, "none"),
     warnings |-> warnings,
     balanceDiff |-> Null,
     stepLabels |-> labels]

\* DynamicComposer.simulate after its build() has returned the transaction:
\* simulation is what simulate.simple answered, parsed.
simulateReturn(simulation) ==
    /\ buildPc = "built"
    /\ composed = Pending
    /\ composed' = ComposedResult(simulation, lastWarnings,
                                  [i \in 1..Len(steps) |-> steps[i].label])
    /\ buildPc' = "idle"
    /\ UNCHANGED <<steps, lastWarnings, functionAbiCache, moduleAbiCache, validated,
                   resultsMap, buildLog, buildError, fetchLog, declareError>>
    /\ UNCHANGED <<callVars, diagVars, dryVars, fetchVars>>

ComposeModeInputs == {"move", "copy", "borrow", "borrow_mut"}

\* Arguments for graphs of two steps "a" and "b": the second output of "a" in
\* every mode, an output "a" does not have, and a step that is never declared.
ComposeArgInputs ==
    {SignerArg, LiteralArg(100)}
    \cup {RefArg("a", 1, m) : m \in ComposeModeInputs}
    \cup {RefArg("a", 2, "move"), RefArg("z", 0, "move")}

ComposeStepInputs ==
    {ComposerStep(FN_WITHDRAW, <<>>, args) :
        args \in { <<SignerArg, LiteralArg(100)>>, <<LiteralArg(100), SignerArg>>,
                   <<SignerArg, RefArg("z", 0, "move")>> }}
    \cup {ComposerStep(FN_DEPOSIT, <<>>, <<x, y>>) :
             x \in ComposeArgInputs \ {SignerArg}, y \in ComposeArgInputs \ {SignerArg}}

SimulationOutcomes ==
    { [success |-> TRUE, vmStatus |-> <<EXECUTED>>],
      [success |-> FALSE, vmStatus |-> <<"out_of_gas">>],
      [success |-> FALSE, vmStatus |-> <<"Move abort", "lending">>] }

ComposeInit ==
    /\ CallsIdle
    /\ DiagIdle
    /\ DryIdle
    /\ ComposerFresh
    /\ fetchLog = <<>>

NextCompose ==
    \/ \E step \in StepInputsAfter(steps, ComposeStepInputs) :
          addStep(StepLabels[Len(steps) + 1], step)
    \/ simulate
    \/ builderStep
    \/ builderReturn
    \/ \E simulation \in SimulationOutcomes : simulateReturn(simulation)

SpecCompose == ComposeInit /\ [][NextCompose]_vars

\* The findings of the latest validation are soft ones, and there are some.
OnlySoftFindings(warnings) == warnings # <<>> /\ ~HardFinding(warnings)

ValidatedInBuild == buildLog # <<>> /\ buildLog[1].call = "validateSteps"

\* C11: when the validation build() runs returns soft findings only
\* (SIGNER_MISMATCH, UNCONSUMED_RESOURCE), build() goes on to call
\* BuildScriptComposerTransaction, and the ComposedResult simulate() returns
\* carries in its warnings exactly the findings validateSteps gives for the graph.
C11_SoftFindingsCarried ==
    /\ [](ValidatedInBuild /\ OnlySoftFindings(lastWarnings)
            => /\ Len(buildLog) >= 2
               /\ buildLog[2].call = "BuildScriptComposerTransaction")
    /\ [][composed = Pending /\ composed' # Pending /\ composed' # Null
            => /\ composed'.warnings = lastWarnings
               /\ composed'.warnings =
                     validateSteps(steps, functionAbiCache, moduleAbiCache).warnings
               /\ ~HardFinding(composed'.warnings)]_vars

\* simulate() has returned a result that carries a signer mismatch and an
\* unconsumed resource.
C11_Witness ==
    /\ composed # Null
    /\ buildPc = "idle"
    /\ \E k \in 1..Len(composed.warnings) : composed.warnings[k].code = "SIGNER_MISMATCH"
    /\ \E k \in 1..Len(composed.warnings) : composed.warnings[k].code = "UNCONSUMED_RESOURCE"
    /\ composed.warnings = lastWarnings

(***************************************************************************)
(* validateSteps step by step.  steps.map(async ...) calls fetchFunction   *)
(* for every step before the first answer arrives; each answer then runs   *)
(* the rest of its fetchFunction call, in whatever order the node answers. *)
(* A request fails when the chain holds no such module and when the node   *)
(* cannot be reached at that moment.                                       *)
(***************************************************************************)
builderVars == <<lastWarnings, buildPc, resultsMap, buildLog, buildError, composed,
                 declareError>>

\* One entry of abiPromises: "rejected" by a malformed function id, "hit" in the
\* cache, in "wait" of the node's answer, or "done" with it.
AbiPromise(state, abi) == [state |-> state, abi |-> abi]

InFlight == {i \in 1..Len(fanOut) : fanOut[i].state = "wait"}
Rejected == {i \in 1..Len(fanOut) : fanOut[i].state = "rejected"}

\* fetchFunction up to its await: the cache check of one step.
fetchFunctionCall(id) ==
    IF id = Null THEN AbiPromise("rejected", Undefined)
    ELSE IF MapHas(functionAbiCache, id)
    THEN AbiPromise("hit", fetchFunction(functionAbiCache, functionAbiCache,
                                         moduleAbiCache, id[1], id[2], id[3]).abi)
    ELSE AbiPromise("wait", Undefined)

\* validateSteps from its entry to `await Promise.all(abiPromises)`.
validateStepsCall ==
    /\ valPc = "idle"
    /\ InFlight = {}
    /\ fanOut' = [i \in 1..Len(steps) |->
                     fetchFunctionCall(parseFunctionId(steps[i].step.function))]
    /\ fetchLog' = LET asked == SelectSeq([i \in 1..Len(steps) |-> steps[i].step.function],
                                          LAMBDA f : /\ parseFunctionId(f) # Null
                                                     /\ ~MapHas(functionAbiCache,
                                                                parseFunctionId(f)))
                   IN [k \in 1..Len(asked) |-> <<asked[k][1], asked[k][2]>>]
    /\ valPc' = "fetching"
    /\ UNCHANGED <<steps, functionAbiCache, moduleAbiCache, validated, previous,
                   unreachable>>
    /\ UNCHANGED <<callVars, diagVars, dryVars, builderVars>>

\* The node answers the request of step i, or fails it, and fetchFunction runs
\* from its await to its return.  A rejected promise settles before any answer.
getAccountModuleAnswers(i) ==
    /\ i \in InFlight
    /\ ~(valPc = "fetching" /\ Rejected # {})
    /\ LET id == parseFunctionId(steps[i].step.function)
           f == fetchFunction(EmptyMap, functionAbiCache, moduleAbiCache,
                              id[1], id[2], id[3])
       IN /\ functionAbiCache' = f.functionAbiCache
          /\ moduleAbiCache' = f.moduleAbiCache
          /\ fanOut' = [fanOut EXCEPT ![i] = AbiPromise("done", f.abi)]
    /\ UNCHANGED <<steps, validated, previous, unreachable, valPc, fetchLog>>
    /\ UNCHANGED <<callVars, diagVars, dryVars, builderVars>>

\* Promise.all rejects with the Error of parseFunctionId, and validateSteps with
\* it; the requests already made stay in flight.
validateStepsThrows ==
    /\ valPc = "fetching"
    /\ Rejected # {}
    /\ validated' = [threw |-> TRUE]
    /\ previous' = validated
    /\ valPc' = "idle"
    /\ UNCHANGED <<steps, functionAbiCache, moduleAbiCache, unreachable, fanOut, fetchLog>>
    /\ UNCHANGED <<callVars, diagVars, dryVars, builderVars>>

\* Every promise is fulfilled: the loops 2. and 3. of validateSteps, and its return.
validateStepsReturn ==
    /\ valPc = "fetching"
    /\ Rejected = {}
    /\ InFlight = {}
    /\ LET results == [i \in 1..Len(steps) |->
                          [label |-> steps[i].label, step |-> steps[i].step,
                           abi |-> fanOut[i].abi]]
           v == crossStep(validateEach(results, functionAbiCache, moduleAbiCache), steps)
       IN /\ validated' = [threw |-> FALSE, validations |-> v.validations,
                           warnings |-> v.warnings]
          /\ functionAbiCache' = v.functionAbiCache
          /\ moduleAbiCache' = v.moduleAbiCache
          /\ fetchLog' = fetchLog \o v.requests
    /\ previous' = validated
    /\ valPc' = "idle"
    /\ UNCHANGED <<steps, unreachable, fanOut>>
    /\ UNCHANGED <<callVars, diagVars, dryVars, builderVars>>

\* The node becomes unreachable for the requests of one module, or reachable again.
nodeChanges(m) ==
    /\ unreachable' = IF m \in unreachable THEN unreachable \ {m} ELSE unreachable \cup {m}
    /\ UNCHANGED <<steps, functionAbiCache, moduleAbiCache, validated, previous, valPc,
                   fanOut, fetchLog>>
    /\ UNCHANGED <<callVars, diagVars, dryVars, builderVars>>

\* A function of a module on chain that the module does not expose, and a
\* function id of two parts.
FN_HIDDEN == <<"0x1", "vault", "hidden">>
FN_MALFORMED == <<"0x1", "vault">>

FetchStepInputs ==
    { ComposerStep(FN_WITHDRAW, <<>>, <<SignerArg, LiteralArg(100)>>),
      ComposerStep(FN_DEPOSIT, <<>>, <<LiteralArg(100), RefArg("a", 1, "move")>>),
      ComposerStep(FN_HIDDEN, <<>>, <<LiteralArg(100), SignerArg>>),
      ComposerStep(FN_FAKE, <<>>, <<SignerArg>>),
      ComposerStep(FN_MALFORMED, <<>>, <<SignerArg, LiteralArg(100)>>) }

\* The graphs handed to validateSteps have up to as many steps as there are labels.
FetchInit ==
    /\ CallsIdle
    /\ DiagIdle
    /\ DryIdle
    /\ steps \in {g \in UNION {[1..n -> [label : StepLabelInputs, step : FetchStepInputs]] :
                                   n \in 1..Len(StepLabels)} :
                     \A i \in 1..Len(g) : g[i].label = StepLabels[i]}
    /\ lastWarnings = <<>>
    /\ functionAbiCache = EmptyMap
    /\ moduleAbiCache = EmptyMap
    /\ validated = Null
    /\ buildPc = "idle"
    /\ resultsMap = EmptyMap
    /\ buildLog = <<>>
    /\ buildError = Null
    /\ fetchLog = <<>>
    /\ composed = Null
    /\ declareError = Null
    /\ unreachable = {}
    /\ valPc = "idle"
    /\ fanOut = <<>>
    /\ previous = Null

NextFetch ==
    \/ validateStepsCall
    \/ \E i \in DOMAIN StepLabels : getAccountModuleAnswers(i)
    \/ validateStepsThrows
    \/ validateStepsReturn
    \/ \E m \in DOMAIN ON_CHAIN : nodeChanges(m)

SpecFetch == FetchInit /\ [][NextFetch]_vars

(***************************************************************************)
(* Properties of validateSteps and its caches under the node's answers.    *)
(***************************************************************************)
\* The positions of the findings about this step, whatever their code.
AllFindingsAbout(warnings, label) ==
    {k \in 1..Len(warnings) : warnings[k].stepLabel = label}

LaterCallFetching == valPc = "fetching" /\ ValidateReturned

LaterCallReturned ==
    /\ valPc = "idle"
    /\ ValidateReturned
    /\ previous # Null
    /\ ~previous.threw

\* C13: once a validateSteps call on the graph has returned, a later call on the
\* same graph asks the node for no module, neither for the signatures of its
\* steps nor for the structs of their return types.
C13_Original ==
    LaterCallFetching \/ LaterCallReturned => fetchLog = <<>>

\* A second call on a one-step graph whose function its module, fetched and
\* cached by the first call, does not expose: the module is asked for again.
C13_Refetched ==
    /\ LaterCallFetching
    /\ Len(steps) = 1
    /\ steps[1].step.function = FN_HIDDEN
    /\ MapHas(moduleAbiCache, <<"0x1", "vault">>)
    /\ moduleAbiCache[<<"0x1", "vault">>] # Null
    /\ fetchLog = << <<"0x1", "vault">> >>

\* C14: two validateSteps calls in a row on the same graph return the same set
\* of findings.
C14_Original ==
    LaterCallReturned => Range(validated.warnings) = Range(previous.warnings)

\* Two steps call the same function; the first call of validateSteps found it
\* for step "a" only, the second call for neither step.
C14_Differs ==
    /\ LaterCallReturned
    /\ Len(steps) = 2
    /\ steps[1].step.function = FN_WITHDRAW
    /\ steps[2].step.function = FN_WITHDRAW
    /\ FindingsAbout(previous.warnings, "FUNCTION_NOT_FOUND_ERROR", "a") = {}
    /\ FindingsAbout(previous.warnings, "FUNCTION_NOT_FOUND_ERROR", "b") # {}
    /\ FindingsAbout(validated.warnings, "FUNCTION_NOT_FOUND_ERROR", "a") # {}
    /\ FindingsAbout(validated.warnings, "FUNCTION_NOT_FOUND_ERROR", "b") # {}

\* C15: the caches are append-only: a key that holds a value keeps that value
\* at every step, whatever the order in which the answers to the requests in
\* flight arrive.
C15_Original ==
    [][/\ \A k \in DOMAIN functionAbiCache :
             /\ k \in DOMAIN functionAbiCache'
             /\ functionAbiCache'[k] = functionAbiCache[k]
       /\ \A k \in DOMAIN moduleAbiCache :
             /\ k \in DOMAIN moduleAbiCache'
             /\ moduleAbiCache'[k] = moduleAbiCache[k]]_vars

\* The module was fetched and cached with the function it exposes, and the key
\* of that function holds the not-found marker.
C15_Overwritten ==
    /\ MapHas(moduleAbiCache, <<"0x1", "vault">>)
    /\ moduleAbiCache[<<"0x1", "vault">>] # Null
    /\ MapHas(functionAbiCache, FN_WITHDRAW)
    /\ functionAbiCache[FN_WITHDRAW] = Null
    /\ MapHas(functionAbiCache, FN_DEPOSIT)
    /\ functionAbiCache[FN_DEPOSIT] # Null

\* C16: when validateSteps throws for a malformed function id, it has asked the
\* node for nothing.
C16_Original ==
    valPc = "idle" /\ validated # Null /\ validated.threw => fetchLog = <<>>

\* validateSteps threw for a graph whose first step has the malformed function
\* id, after the module of its second step was asked for.
C16_Requested ==
    /\ valPc = "idle"
    /\ validated # Null
    /\ validated.threw
    /\ Len(steps) = 2
    /\ steps[1].step.function = FN_MALFORMED
    /\ fetchLog = << <<"0x1", "vault">> >>

(***************************************************************************)
(* Properties of the resolver within build().                              *)
(***************************************************************************)
ResolverErrors == {"UnknownStep", "ReturnIndexOutOfBounds"}

RejectedByResolver == buildPc = "thrown" /\ buildError.kind \in ResolverErrors

\* C17: when build() throws for a Ref to an unknown step or with a return index
\* out of range, no module was asked of the node by its validation and no call
\* was made to the composition collaborator, for any step.
C17_Original ==
    RejectedByResolver => fetchLog = <<>> /\ CollaboratorCalls = {}

\* build() threw the unknown-step error for step "b" after its validation had
\* asked the node for modules and after step "a" was handed to addBatchedCalls.
C17_AfterFetchAndCompose ==
    /\ RejectedByResolver
    /\ buildError.kind = "UnknownStep"
    /\ fetchLog # <<>>
    /\ Len(buildLog) = 3
    /\ buildLog[2].call = "BuildScriptComposerTransaction"
    /\ buildLog[3].call = "addBatchedCalls"
    /\ buildLog[3].label = "a"

\* The Move-mode Refs of the steps before step k, all of them resolved when step
\* k is, and those of the arguments of step k before its argument j.
MovedBefore(k, j) ==
    {<<steps[t].step.args[i].step, steps[t].step.args[i].returnIndex>> :
        <<t, i>> \in {p \in (1..k) \X (1..MaxArgs) :
                         /\ p[2] <= Len(steps[p[1]].step.args)
                         /\ p[1] = k => p[2] < j
                         /\ IsRef(steps[p[1]].step.args[p[2]])
                         /\ steps[p[1]].step.args[p[2]].mode = "move"}}

\* Every Ref of step k names a resolved step and an output that step has.
Resolvable(k) ==
    \A j \in 1..Len(steps[k].step.args) :
        ~UnknownRef(steps[k].step.args[j], k) /\ ~OutOfBoundsRef(steps[k].step.args[j], k)

\* Step k has a Move-mode Ref to an output an earlier Move-mode Ref was given.
SecondMove(k) ==
    /\ Resolvable(k)
    /\ \E j \in 1..Len(steps[k].step.args) :
          /\ IsRef(steps[k].step.args[j])
          /\ steps[k].step.args[j].mode = "move"
          /\ <<steps[k].step.args[j].step, steps[k].step.args[j].returnIndex>>
                \in MovedBefore(k, j)

\* C20: resolving a step with a second Move-mode Ref to an output raises an
\* error, and resolving a step whose Refs are to outputs that exist and were not
\* moved before, whatever was copied or borrowed, raises none.
C20_Original ==
    [][Resolving =>
          /\ SecondMove(NextToResolve) => buildPc' = "thrown"
          /\ (Resolvable(NextToResolve) /\ ~SecondMove(NextToResolve))
                => ~(buildPc' = "thrown" /\ buildError'.kind \in ResolverErrors)]_vars

\* addBatchedCalls was handed the same output of step "a" twice, moved both times.
C20_MovedTwice ==
    \E k \in 1..Len(buildLog) :
        /\ buildLog[k].call = "addBatchedCalls"
        /\ buildLog[k].label = "b"
        /\ buildLog[k].input.functionArguments[1] = CallArgumentResult(0, 1)
        /\ buildLog[k].input.functionArguments[2] = CallArgumentResult(0, 1)

(***************************************************************************)
(* extractBalancesFromSimulation called on its own.  The repository holds  *)
(* two copies of simulation/flow-tracker.ts whose extractBalancesFrom-     *)
(* Simulation differ: one matches a write by the address of the owner's    *)
(* primary store (above), the other by the metadata the store carries.     *)
(* Which copy a build holds is not settled by the repository, so it is     *)
(* drawn in Init.                                                          *)
(***************************************************************************)

\* inner.metadata.inner of a FungibleStore write: the metadata of the pair the
\* store address was derived from, "" when the address is no store's.
MetadataInner(c) == IF c.address[1] = "object" THEN c.address[3] ELSE ""

\* tokens.find(t => t.metadata.toLowerCase() === metadata.toLowerCase())
FindTokenByMetadata(tokens, metadata) ==
    LET hits == SelectSeq(tokens, LAMBDA t : ToLowerCase(t.metadata) = ToLowerCase(metadata))
    IN IF hits = <<>> THEN Undefined ELSE Head(hits)

\* The loop over the changes of the copy that matches by metadata.
RECURSIVE ExtractByMetadataLoop(_, _, _)
ExtractByMetadataLoop(changes, tokens, result) ==
    IF changes = <<>> THEN result
    ELSE LET c == Head(changes)
             metadata == MetadataInner(c)
             found == FindTokenByMetadata(tokens, metadata)
             take == /\ c.type = "write_resource"
                     /\ TypeIncludes(c.dataType, "FungibleStore")
                     /\ c.hasBalance
                     /\ metadata # ""
                     /\ found # Undefined
                     /\ \/ ~MapHas(result, found.metadata)
                        \/ c.balance > result[found.metadata]
         IN ExtractByMetadataLoop(Tail(changes), tokens,
                IF take THEN MapSet(result, found.metadata, c.balance) ELSE result)

extractBalancesByMetadata(raw, tokens, owner) ==
    ExtractByMetadataLoop(raw.changes, tokens, EmptyMap)

ExtractCopies == {"flow-tracker.ts", "part_004"}

extractBalancesOfCopy(copy, raw, tokens, owner) ==
    IF copy = "flow-tracker.ts"
    THEN extractBalancesFromSimulation(raw, tokens, owner)
    ELSE extractBalancesByMetadata(raw, tokens, owner)

MaxChanges == 2

ExtractChangeInputs ==
    { WriteStore(STORE_A, 1), WriteStore(STORE_A, 7),
      WriteStore(POOL_STORE_A, 1), WriteStore(POOL_STORE_A, 7),
      WriteStore(STORE_B, 5),
      WriteResource(STORE_A, "0x1::object::ObjectCore"),
      DeleteResource(AccountAddr(OWNER), "0xP::lending::Vault") }

ExtractTokenInputs == { <<TOKEN_A, TOKEN_B>>, <<TokenConfig("A", "0xA", 1)>> }

ExtractInit ==
    /\ DecodeIdle
    /\ DeltasIdle
    /\ ClientIdle
    /\ ActionsIdle
    /\ FlightIdle
    /\ DiagIdle
    /\ DryIdle
    /\ ComposerIdle
    /\ extractPc = "call"
    /\ extractCopy \in ExtractCopies
    /\ extractArgs \in
         { [raw |-> [changes |-> c], tokens |-> t, owner |-> OWNER] :
           c \in SeqsUpTo(ExtractChangeInputs, MaxChanges),
           t \in ExtractTokenInputs }
    /\ extracted = Null

extractCall ==
    /\ extractPc = "call"
    /\ extracted' = extractBalancesOfCopy(extractCopy, extractArgs.raw,
                                          extractArgs.tokens, extractArgs.owner)
    /\ extractPc' = "returned"
    /\ UNCHANGED <<extractCopy, extractArgs>>
    /\ UNCHANGED <<decodeVars, deltasVars, clientVars, actionsVars, flightVars>>
    /\ UNCHANGED <<diagVars, dryVars, composerVars>>

NextExtract == extractCall

SpecExtract == ExtractInit /\ [][NextExtract]_vars

\* The fungible-store writes of the changes at the store address derived from
\* (owner, token.metadata), in order.
WritesAtDerivedStore(token) ==
    SelectSeq(extractArgs.raw.changes,
              LAMBDA c : /\ c.type = "write_resource"
                         /\ TypeIncludes(c.dataType, "FungibleStore")
                         /\ c.hasBalance
                         /\ c.address = createObjectAddress(extractArgs.owner,
                                                            token.metadata))

\* C18: the balance extractBalancesFromSimulation returns for a tracked token is
\* the balance of the last fungible-store write at the store address derived
\* from (owner, token.metadata), and the token has no entry when no such write
\* exists: writes at other addresses, a pool's store with the same metadata
\* included, do not change the result.
C18_Original ==
    extractPc = "returned" =>
        \A i \in 1..Len(extractArgs.tokens) :
            LET token == extractArgs.tokens[i]
                own == WritesAtDerivedStore(token)
            IN IF own = <<>>
               THEN ~MapHas(extracted, token.metadata)
               ELSE /\ MapHas(extracted, token.metadata)
                    /\ extracted[token.metadata] = own[Len(own)].balance

\* The result for token A is the balance written to the pool's store.
C18_PoolAttributed ==
    /\ extractPc = "returned"
    /\ \E i \in 1..Len(extractArgs.raw.changes) :
           LET c == extractArgs.raw.changes[i]
           IN /\ c.address = POOL_STORE_A
              /\ c.hasBalance
              /\ MapHas(extracted, extractArgs.tokens[1].metadata)
              /\ extracted[extractArgs.tokens[1].metadata] = c.balance
              /\ \A j \in 1..Len(extractArgs.raw.changes) :
                     extractArgs.raw.changes[j].address = STORE_A
                         => extractArgs.raw.changes[j].balance # c.balance

\* C18 for the copy of src/simulation/flow-tracker.ts alone.
C18_AddressCopy == extractCopy = "flow-tracker.ts" => C18_Original

(***************************************************************************)
(* Declaring steps: DynamicComposer.addStep with labels the caller chooses *)
(* and DynamicComposer.fromJSON, which builds a new composer and calls     *)
(* addStep for each step of the plan.                                      *)
(***************************************************************************)

\* The values of a StepArgJSON literal: typeof value and the value, a string
\* being the sequence of its characters.  A ref without mode has no mode field.
JSONNumber(value) == [type |-> "number", number |-> value]
JSONString(value) == [type |-> "string", chars |-> value]
JSONBoolean(value) == [type |-> "boolean", boolean |-> value]

\* The bigint a literal is decoded to.
BigIntValue(value) == [type |-> "bigint", bigint |-> value]

Digits == <<"0", "1", "2", "3", "4", "5", "6", "7", "8", "9">>

IsDigit(char) == \E d \in 1..Len(Digits) : Digits[d] = char

DigitValue(char) == (CHOOSE d \in 1..Len(Digits) : Digits[d] = char) - 1

\* /^\d+n$/.test(value)
IsBigIntString(value) ==
    /\ Len(value) >= 2
    /\ value[Len(value)] = "n"
    /\ \A i \in 1..(Len(value) - 1) : IsDigit(value[i])

\* BigInt(digits): the integer the decimal digits write, whatever their number.
RECURSIVE BigIntOfDigits(_)
BigIntOfDigits(digits) ==
    IF digits = <<>> THEN 0
    ELSE 10 * BigIntOfDigits(SubSeq(digits, 1, Len(digits) - 1))
         + DigitValue(digits[Len(digits)])

\* BigInt(value.slice(0, -1))
BigIntOf(value) == BigIntOfDigits(SubSeq(value, 1, Len(value) - 1))

\* deserializeArg handing every literal on as the JSON holds it.
deserializeArgPassthrough(json) ==
    CASE json.kind = "signer" -> SignerArg
      [] json.kind = "literal" -> LiteralArg(json.value)
      [] json.kind = "ref" ->
            RefArg(json.step, json.returnIndex,
                   IF "mode" \in DOMAIN json THEN json.mode ELSE "move")

deserializeArg(json) ==
    CASE json.kind = "signer" -> SignerArg
      [] json.kind = "literal" ->
            IF json.value.type = "string" /\ IsBigIntString(json.value.chars)
            THEN LiteralArg(BigIntValue(BigIntOf(json.value.chars)))
            ELSE LiteralArg(json.value)
      [] json.kind = "ref" ->
            RefArg(json.step, json.returnIndex,
                   IF "mode" \in DOMAIN json THEN json.mode ELSE "move")

\* The loop of fromJSON over json.steps on the new composer's step list.
RECURSIVE fromJSONLoop(_, _)
fromJSONLoop(jsonSteps, entries) ==
    IF jsonSteps = <<>> THEN [threw |-> FALSE, steps |-> entries]
    ELSE LET step == Head(jsonSteps)
             added == addStepTo(entries, step.label,
                                ComposerStep(step.function, step.typeArguments,
                                             [i \in 1..Len(step.args) |->
                                                 deserializeArg(step.args[i])]))
         IN IF added.threw THEN added ELSE fromJSONLoop(Tail(jsonSteps), added.steps)

\* fromJSON returns a new composer, which takes the place of the composer the
\* caller held; when an addStep throws no composer is returned.
fromJSON(json) ==
    /\ BuildNotRunning
    /\ LET made == fromJSONLoop(json.steps, <<>>)
       IN IF made.threw
          THEN /\ declareError' = made.error
               /\ UNCHANGED <<steps, validated, lastWarnings, buildPc, resultsMap,
                              buildLog, buildError, composed>>
          ELSE /\ steps' = made.steps
               /\ validated' = Null
               /\ lastWarnings' = <<>>
               /\ buildPc' = "idle"
               /\ resultsMap' = EmptyMap
               /\ buildLog' = <<>>
               /\ buildError' = Null
               /\ composed' = Null
               /\ declareError' = Null
    /\ UNCHANGED <<functionAbiCache, moduleAbiCache, fetchLog>>
    /\ UNCHANGED <<callVars, diagVars, dryVars, fetchVars>>

DeclareLabelInputs == {"a", "b", "c"}

DeclareStepInputs ==
    { ComposerStep(FN_WITHDRAW, <<>>, <<SignerArg, LiteralArg(BigIntValue(100))>>),
      ComposerStep(FN_DEPOSIT, <<>>, <<LiteralArg(JSONNumber(100)), RefArg("a", 0, "move")>>) }

StepJSON(label, function, args) ==
    [label |-> label, function |-> function, typeArguments |-> <<>>, args |-> args]

WithdrawJSON(label) ==
    StepJSON(label, FN_WITHDRAW,
             << [kind |-> "signer"], [kind |-> "literal", value |-> JSONString(<<"1", "0", "0", "n">>)] >>)

DepositJSON(label, from) ==
    StepJSON(label, FN_DEPOSIT,
             << [kind |-> "literal", value |-> JSONNumber(100)],
                [kind |-> "ref", step |-> from, returnIndex |-> 0] >>)

PlanJSONInputs ==
    { [steps |-> <<>>],
      [steps |-> << WithdrawJSON("a"), DepositJSON("b", "a") >>],
      [steps |-> << WithdrawJSON("a"), DepositJSON("a", "a") >>],
      [steps |-> << WithdrawJSON("b"), DepositJSON("c", "b"), WithdrawJSON("b") >>] }

NextDeclare ==
    \/ \E label \in DeclareLabelInputs, step \in DeclareStepInputs : addStep(label, step)
    \/ \E json \in PlanJSONInputs : fromJSON(json)

SpecDeclare == ComposerInit /\ [][NextDeclare]_vars

LabelsOf(entries) == {entries[i].label : i \in 1..Len(entries)}

LabelsDistinct(entries) ==
    \A i, j \in 1..Len(entries) : i # j => entries[i].label # entries[j].label

\* C19: whatever addStep and fromJSON calls were made, the labels of the step
\* list are pairwise distinct; an addStep whose label the list holds already
\* throws the duplicate-label Error and leaves the list as it was, and a
\* fromJSON of a plan with a repeated label throws it and returns no composer.
C19_LabelsUnique ==
    /\ [](LabelsDistinct(steps))
    /\ [][ /\ \A label \in DeclareLabelInputs, step \in DeclareStepInputs :
                (label \in LabelsOf(steps) /\ addStep(label, step))
                    => /\ declareError' = [kind |-> "DuplicateLabel", label |-> label]
                       /\ steps' = steps
           /\ \A json \in PlanJSONInputs :
                (~LabelsDistinct(json.steps) /\ fromJSON(json))
                    => /\ declareError' # Null
                       /\ steps' = steps
           /\ steps' # steps => declareError' = Null ]_vars

\* A composer holding two steps has rejected an addStep.
C19_Witness ==
    /\ Len(steps) >= 2
    /\ declareError # Null
    /\ declareError.label \in LabelsOf(steps)

\* A composer two addStep calls filled has seen fromJSON throw for label b of
\* a plan: label b is not in the caller's composer.
C19_WitnessFromJSON ==
    /\ Len(steps) >= 1
    /\ declareError # Null
    /\ declareError.label \notin LabelsOf(steps)

(***************************************************************************)
(* Failed simulations, in simulate() and in dryRun: the program runs       *)
(* either the composer or a dry run of a plan.                             *)
(***************************************************************************)

SimulationsInit == ComposeInit \/ DryInit

NextSimulations ==
    \/ dryPc = "idle" /\ NextCompose
    \/ NextDryRun

SpecSimulations == SimulationsInit /\ [][NextSimulations]_vars

SimulateReturned == composed # Null /\ composed # Pending

\* The diagnoses of the failed simulations of the log, in order, each with the
\* label of the plan step it was made for.
DiagnosesOfFailed ==
    Flat([i \in 1..Len(simLog) |->
            IF simLog[i].success THEN <<>>
            ELSE diagnoseVmStatus(simLog[i].vmStatus, plan.steps[i].label)])

\* C21: a failed simulation is data, not a throw: the ComposedResult simulate()
\* returns has no errors when the simulation succeeded and the diagnosis of
\* its VM status otherwise, and simulate() throws nothing then; dryRun returns
\* a FlowReport after every step was simulated, failed or not, whose errors
\* are the diagnoses of the failed steps, in step order, under their labels.
C21_FailuresAreData ==
    /\ SimulateReturned =>
          /\ buildError = Null
          /\ composed.success = composed.simulation.success
          /\ composed.errors = IF composed.simulation.success THEN <<>>
                               ELSE diagnoseVmStatus(composed.simulation.vmStatus, "none")
    /\ dryPc = "done" =>
          /\ report # Null
          /\ Len(simLog) = Len(plan.steps)
          /\ report.errors = DiagnosesOfFailed
          /\ \A k \in 1..Len(report.errors) :
                \E i \in 1..Len(plan.steps) :
                    /\ ~simLog[i].success
                    /\ report.errors[k].stepLabel = plan.steps[i].label

\* simulate() has returned a failed simulation with its diagnosis.
C21_Witness ==
    /\ SimulateReturned
    /\ ~composed.success
    /\ composed.errors # <<>>

\* dryRun has returned a report of a plan whose first step failed and whose
\* second succeeded.
C21_WitnessDryRun ==
    /\ dryPc = "done"
    /\ Len(simLog) >= 2
    /\ ~simLog[1].success
    /\ simLog[2].success
    /\ report.errors # <<>>

(***************************************************************************)
(* deserializeArg called on its own, on a StepArgJSON drawn in Init.       *)
(***************************************************************************)

MaxChars == 4

CharInputs == {"0", "1", "9", "n", "a"}

LiteralValueInputs ==
    {JSONString(chars) : chars \in SeqsUpTo(CharInputs, MaxChars)}
    \cup {JSONNumber(number) : number \in {0, 100}}
    \cup {JSONBoolean(boolean) : boolean \in BOOLEAN}

StepArgJSONInputs ==
    {[kind |-> "signer"]}
    \cup {[kind |-> "literal", value |-> value] : value \in LiteralValueInputs}
    \cup {[kind |-> "ref", step |-> "a", returnIndex |-> 0],
          [kind |-> "ref", step |-> "a", returnIndex |-> 0, mode |-> "copy"]}

DecodeInit ==
    /\ ExtractIdle
    /\ DeltasIdle
    /\ ClientIdle
    /\ ActionsIdle
    /\ FlightIdle
    /\ DiagIdle
    /\ DryIdle
    /\ ComposerIdle
    /\ decodePc = "call"
    /\ jsonArg \in StepArgJSONInputs
    /\ decoded = Null

deserializeArgCall ==
    /\ decodePc = "call"
    /\ decoded' = deserializeArg(jsonArg)
    /\ decodePc' = "returned"
    /\ UNCHANGED jsonArg
    /\ UNCHANGED <<extractVars, deltasVars, clientVars, actionsVars, flightVars>>
    /\ UNCHANGED <<diagVars, dryVars, composerVars>>

NextDecode == deserializeArgCall

SpecDecode == DecodeInit /\ [][NextDecode]_vars

\* The string is one or more decimal digits followed by the letter n.
IsDigitsThenN(chars) ==
    /\ Len(chars) >= 2
    /\ chars[Len(chars)] = "n"
    /\ \A i \in 1..(Len(chars) - 1) : chars[i] \in {"0", "1", "9"}

\* The integer the digits before the n write: the sum of digit * 10^position.
RECURSIVE TenTo(_)
TenTo(n) == IF n = 0 THEN 1 ELSE 10 * TenTo(n - 1)

WrittenInteger(chars) ==
    LET n == Len(chars) - 1
        value(c) == CASE c = "0" -> 0 [] c = "1" -> 1 [] c = "9" -> 9
    IN SumSeq([i \in 1..n |-> value(chars[i]) * TenTo(n - i)])

\* C22: deserializeArg decodes a literal whose value is a string of digits
\* followed by n to the bigint those digits write, exactly, and hands every
\* other literal value (another string, a number, a boolean) on unchanged.
C22_LiteralDecoding ==
    (decodePc = "returned" /\ jsonArg.kind = "literal") =>
        /\ decoded.kind = "literal"
        /\ IF jsonArg.value.type = "string" /\ IsDigitsThenN(jsonArg.value.chars)
           THEN decoded.value = BigIntValue(WrittenInteger(jsonArg.value.chars))
           ELSE decoded.value = jsonArg.value

\* The string 919n was decoded to the bigint 919.
C22_Witness ==
    /\ decodePc = "returned"
    /\ jsonArg.kind = "literal"
    /\ jsonArg.value = JSONString(<<"9", "1", "9", "n">>)
    /\ decoded.value = BigIntValue(919)

\* The string 1n0, which only contains digits and an n, was handed on unchanged.
C22_WitnessPassthrough ==
    /\ decodePc = "returned"
    /\ jsonArg.kind = "literal"
    /\ jsonArg.value = JSONString(<<"1", "n", "0">>)
    /\ decoded.value = jsonArg.value

(***************************************************************************)
(* computeDeltas called on its own, on balance maps drawn in Init.         *)
(***************************************************************************)

TOKEN_C == TokenConfig("C", "0xc", 6)

BalanceInputs == {0, 1, 7, 205000000}

\* The Maps from some of the metadata addresses to a balance.
BalanceMapInputs ==
    UNION { [keys -> BalanceInputs] : keys \in SUBSET {"0xa", "0xc"} }

DeltasInit ==
    /\ ExtractIdle
    /\ DecodeIdle
    /\ ClientIdle
    /\ ActionsIdle
    /\ FlightIdle
    /\ DiagIdle
    /\ DryIdle
    /\ ComposerIdle
    /\ deltasPc = "call"
    /\ deltasArgs \in
         { [before |-> b, after |-> a, tokens |-> t] :
           b \in BalanceMapInputs, a \in BalanceMapInputs,
           t \in { <<TOKEN_A, TOKEN_C>>, <<TOKEN_C>> } }
    /\ deltasOut = Null

computeDeltasCall ==
    /\ deltasPc = "call"
    /\ deltasOut' = computeDeltas(deltasArgs.before, deltasArgs.after, deltasArgs.tokens)
    /\ deltasPc' = "returned"
    /\ UNCHANGED deltasArgs
    /\ UNCHANGED <<extractVars, decodeVars, clientVars, actionsVars, flightVars>>
    /\ UNCHANGED <<diagVars, dryVars, composerVars>>

NextDeltas == computeDeltasCall

SpecDeltas == DeltasInit /\ [][NextDeltas]_vars

\* The first character of `${sign}${formatAmount(delta, decimals)}`: the sign
\* when it is not empty, else the minus toFixed prints, else a digit.
FirstChar(formatted) ==
    IF formatted.sign # "" THEN formatted.sign
    ELSE IF formatted.amount.minus THEN "-" ELSE "digit"

\* C23: computeDeltas returns one delta per tracked token, in order, with
\* delta = after - before, before being 0 and after being before when the map
\* does not hold the token, and a formatted delta that begins with "-" when
\* the delta is negative and with "+" when it is not.
C23_Deltas ==
    deltasPc = "returned" =>
        /\ Len(deltasOut) = Len(deltasArgs.tokens)
        /\ \A i \in 1..Len(deltasArgs.tokens) :
              LET m == deltasArgs.tokens[i].metadata
                  b == IF m \in DOMAIN deltasArgs.before THEN deltasArgs.before[m] ELSE 0
                  a == IF m \in DOMAIN deltasArgs.after THEN deltasArgs.after[m] ELSE b
              IN /\ deltasOut[i].token = deltasArgs.tokens[i]
                 /\ deltasOut[i].before = b
                 /\ deltasOut[i].after = a
                 /\ deltasOut[i].delta = a - b
                 /\ FirstChar(deltasOut[i].deltaFormatted) = (IF a - b < 0 THEN "-" ELSE "+")

\* The spec's example: before 205000000 and after 0 of a token with 6 decimals
\* give -205000000, printed as -205.000000.
C23_Witness ==
    /\ deltasPc = "returned"
    /\ deltasArgs.tokens = <<TOKEN_C>>
    /\ deltasArgs.before = [k \in {"0xc"} |-> 205000000]
    /\ deltasArgs.after = [k \in {"0xc"} |-> 0]
    /\ deltasOut[1].delta = 0 - 205000000
    /\ FirstChar(deltasOut[1].deltaFormatted) = "-"
    /\ deltasOut[1].deltaFormatted.amount.whole = 205
    /\ deltasOut[1].deltaFormatted.amount.fraction = 0

\* A token the after-map does not hold keeps its balance: delta 0, printed
\* with "+".
C23_WitnessFallback ==
    /\ deltasPc = "returned"
    /\ deltasArgs.tokens = <<TOKEN_C>>
    /\ deltasArgs.before = [k \in {"0xc"} |-> 7]
    /\ deltasArgs.after = EmptyMap
    /\ deltasOut[1].after = 7
    /\ deltasOut[1].delta = 0
    /\ FirstChar(deltasOut[1].deltaFormatted) = "+"

(***************************************************************************)
(* Expectations within dryRun.                                             *)
(***************************************************************************)

\* The expectation is about the balance of a token the plan does not track.
NamesUntrackedToken(exp) ==
    /\ exp.type \in {"balance_increase", "balance_decrease"}
    /\ \A t \in 1..Len(plan.tokens) :
          ToLowerCase(plan.tokens[t].metadata) # ToLowerCase(exp.token)

\* The number of failed expectation results of the first n results of a step.
RECURSIVE FailedAmong(_, _)
FailedAmong(results, n) ==
    IF n = 0 THEN 0
    ELSE FailedAmong(results, n - 1) + (IF results[n].passed THEN 0 ELSE 1)

\* The position in FlowReport.warnings of the warning for expectation j of
\* step i, a failed one: after the warnings of the earlier steps and of the
\* earlier failed expectations of the step.
WarningPosition(i, j) ==
    SumSeq([k \in 1..(i - 1) |->
               FailedAmong(stepResults[k].expectationResults,
                           Len(stepResults[k].expectationResults))])
    + FailedAmong(stepResults[i].expectationResults, j)

\* C24: a simulated step has one ExpectationResult per declared expectation,
\* in order and under its description; a balance expectation naming a token
\* the plan does not track has the failed result "token not tracked", and the
\* FlowReport holds the warning of that failure under the step's label.
C24_ExpectationsReported ==
    \A i \in 1..Len(stepResults) :
        LET declared == plan.steps[i].expectations
            results == stepResults[i].expectationResults
        IN /\ Len(results) = Len(declared)
           /\ \A j \in 1..Len(declared) :
                 /\ results[j].description = declared[j].description
                 /\ NamesUntrackedToken(declared[j]) =>
                       /\ ~results[j].passed
                       /\ results[j].actual = <<"token not tracked">>
                       /\ dryPc = "done" =>
                             /\ WarningPosition(i, j) \in 1..Len(report.warnings)
                             /\ LET w == report.warnings[WarningPosition(i, j)]
                                IN /\ w.code = "EXPECTATION_FAILED"
                                   /\ w.stepLabel = plan.steps[i].label
                                   /\ w.title = declared[j].description
                                   /\ w.detail = <<"token not tracked">>

\* dryRun has returned a report of a plan whose steps declare a balance
\* expectation on the untracked token 0xz.
C24_Witness ==
    /\ dryPc = "done"
    /\ Len(stepResults) >= 2
    /\ \E j \in 1..Len(plan.steps[2].expectations) :
          /\ NamesUntrackedToken(plan.steps[2].expectations[j])
          /\ stepResults[2].expectationResults[j].actual = <<"token not tracked">>
    /\ Len(report.warnings) >= 2

(***************************************************************************)
(* AptosClient, buildAndSimulate and executeTransaction: a client is       *)
(* constructed from a configuration, transactions are built and simulated  *)
(* with it and handed to executeTransaction, which is also what            *)
(* ComposedResult.execute() calls.                                         *)
(***************************************************************************)

MaxNodeCalls == 6

\* The keys of the model: the public key of a private key, the address of a
\* public key.  "" is a key the configuration does not give.
PublicKeyOf(privateKey) == <<"pub", privateKey>>
DerivedAddress(publicKey) == <<"address", publicKey>>

Account(privateKey) ==
    [privateKey |-> privateKey, publicKey |-> PublicKeyOf(privateKey),
     accountAddress |-> DerivedAddress(PublicKeyOf(privateKey))]

\* new AptosClient(cfg): the fields that depend on the keys, or the throw.
AptosClient(cfg) ==
    IF cfg.privateKey # ""
    THEN [threw |-> FALSE, account |-> Account(cfg.privateKey),
          accountAddress |-> Account(cfg.privateKey).accountAddress,
          publicKey |-> Account(cfg.privateKey).publicKey]
    ELSE IF cfg.publicKey # ""
    THEN [threw |-> FALSE, account |-> Null,
          accountAddress |-> DerivedAddress(<<"pub", cfg.publicKey>>),
          publicKey |-> <<"pub", cfg.publicKey>>]
    ELSE [threw |-> TRUE, error |-> "Either privateKey or publicKey must be provided"]

canExecute(c) == c.account # Null

ConfigInputs ==
    { [privateKey |-> k, publicKey |-> p] : k \in {"", "k1"}, p \in {"", "k1", "k2"} }

TransactionResults ==
    { [success |-> TRUE, vm_status |-> <<EXECUTED>>],
      [success |-> FALSE, vm_status |-> <<"out_of_gas">>] }

newAptosClient(cfg) ==
    /\ client = Null
    /\ LET made == AptosClient(cfg)
       IN IF made.threw
          THEN /\ returned' = made
               /\ UNCHANGED client
          ELSE /\ client' = made
               /\ returned' = Null
    /\ UNCHANGED <<nodeCalls, execPc>>
    /\ UNCHANGED <<extractVars, decodeVars, deltasVars, actionsVars, flightVars>>
    /\ UNCHANGED <<diagVars, dryVars, composerVars>>

PayloadInputs == {"swap", "repay"}

\* buildAndSimulate: buildTransaction, then simulateTransaction; simulation is
\* what the node answered, parsed.
buildAndSimulate(payload, simulation) ==
    /\ client # Null
    /\ execPc = "idle"
    /\ Len(nodeCalls) + 2 <= MaxNodeCalls
    /\ nodeCalls' = nodeCalls \o
          << [call |-> "transaction.build.simple", sender |-> client.accountAddress,
              data |-> payload],
             [call |-> "transaction.simulate.simple",
              signerPublicKey |-> client.publicKey, transaction |-> payload] >>
    /\ returned' = [threw |-> FALSE, transaction |-> payload, simulation |-> simulation]
    /\ UNCHANGED <<client, execPc>>
    /\ UNCHANGED <<extractVars, decodeVars, deltasVars, actionsVars, flightVars>>
    /\ UNCHANGED <<diagVars, dryVars, composerVars>>

TransactionBuilt == \E i \in 1..Len(nodeCalls) : nodeCalls[i].call = "transaction.build.simple"

\* executeTransaction without the test of canExecute and account.
executeTransactionUnguarded ==
    /\ client # Null
    /\ execPc = "idle"
    /\ TransactionBuilt
    /\ Len(nodeCalls) + 2 <= MaxNodeCalls
    /\ nodeCalls' = Append(nodeCalls, [call |-> "signAndSubmitTransaction",
                                       signer |-> client.account])
    /\ execPc' = "submitted"
    /\ returned' = Pending
    /\ UNCHANGED client
    /\ UNCHANGED <<extractVars, decodeVars, deltasVars, actionsVars, flightVars>>
    /\ UNCHANGED <<diagVars, dryVars, composerVars>>

\* executeTransaction up to its first await: the throw, or the submission.
executeTransaction ==
    /\ client # Null
    /\ execPc = "idle"
    /\ TransactionBuilt
    /\ Len(nodeCalls) + 2 <= MaxNodeCalls
    /\ IF ~canExecute(client) \/ client.account = Null
       THEN /\ returned' = [threw |-> TRUE,
                            error |-> "Cannot execute: no private key provided"]
            /\ UNCHANGED <<nodeCalls, execPc>>
       ELSE /\ nodeCalls' = Append(nodeCalls, [call |-> "signAndSubmitTransaction",
                                               signer |-> client.account])
            /\ execPc' = "submitted"
            /\ returned' = Pending
    /\ UNCHANGED client
    /\ UNCHANGED <<extractVars, decodeVars, deltasVars, actionsVars, flightVars>>
    /\ UNCHANGED <<diagVars, dryVars, composerVars>>

\* executeTransaction from the answer of signAndSubmitTransaction on:
\* waitForTransaction and the ExecutionResult.
waitForTransaction(result) ==
    /\ execPc = "submitted"
    /\ nodeCalls' = Append(nodeCalls, [call |-> "waitForTransaction"])
    /\ returned' = [threw |-> FALSE, success |-> result.success,
                    vmStatus |-> result.vm_status]
    /\ execPc' = "idle"
    /\ UNCHANGED client
    /\ UNCHANGED <<extractVars, decodeVars, deltasVars, actionsVars, flightVars>>
    /\ UNCHANGED <<diagVars, dryVars, composerVars>>

ExecuteInit ==
    /\ CallsIdle
    /\ DiagIdle
    /\ DryIdle
    /\ ComposerIdle

NextExecute ==
    \/ \E cfg \in ConfigInputs : newAptosClient(cfg)
    \/ \E payload \in PayloadInputs, simulation \in SimulationOutcomes :
          buildAndSimulate(payload, simulation)
    \/ executeTransaction
    \/ \E result \in TransactionResults : waitForTransaction(result)

SpecExecute == ExecuteInit /\ [][NextExecute]_vars

PublicKeyOnly == client # Null /\ client.account = Null

CallsOf(names) == SelectSeq(nodeCalls, LAMBDA c : c.call \in names)

\* C25: with a client built from a public key only, nothing is ever signed,
\* submitted or waited for, every executeTransaction throws the "Cannot
\* execute" Error without a call to the node, and buildAndSimulate still
\* builds with the derived address and simulates with the public key.
C25_SimulationOnly ==
    /\ [](PublicKeyOnly =>
             /\ ~canExecute(client)
             /\ CallsOf({"signAndSubmitTransaction", "waitForTransaction"}) = <<>>
             /\ execPc = "idle")
    /\ [][(PublicKeyOnly /\ executeTransaction) =>
             /\ returned'.threw
             /\ nodeCalls' = nodeCalls]_vars
    /\ [][(PublicKeyOnly /\ \E payload \in PayloadInputs, simulation \in SimulationOutcomes :
                                buildAndSimulate(payload, simulation)) =>
             /\ ~returned'.threw
             /\ Len(nodeCalls') = Len(nodeCalls) + 2
             /\ nodeCalls'[Len(nodeCalls')].signerPublicKey = client.publicKey]_vars

\* A client built from a public key only has built and simulated, and its
\* executeTransaction has thrown.
C25_Witness ==
    /\ PublicKeyOnly
    /\ CallsOf({"transaction.simulate.simple"}) # <<>>
    /\ returned # Null
    /\ returned # Pending
    /\ returned.threw

\* A client built from a private key has executed a transaction.
C25_WitnessExecuted ==
    /\ client # Null
    /\ canExecute(client)
    /\ CallsOf({"waitForTransaction"}) # <<>>

(***************************************************************************)
(* composeActions: the builder callback handed to                          *)
(* BuildScriptComposerTransaction, one step per await of an action's       *)
(* build.                                                                  *)
(***************************************************************************)

MaxActions == 3

\* A ComposableAction: its description and the number of CallArguments its
\* build returns.
ActionInputs ==
    { [description |-> "swap", outputs |-> 1], [description |-> "repay", outputs |-> 0] }

ActionLabelInputs == {"x", "y"}

ActionListInputs ==
    SeqsUpTo({ [label |-> l, action |-> a] : l \in ActionLabelInputs, a \in ActionInputs },
             MaxActions)

\* What the build of the action at position k returns: the outputs of the
\* call it added to the composer.
CallResults(k) == [i \in 1..actions[k].action.outputs |-> [call |-> k, output |-> i - 1]]

\* action.build(ctx) is invoked for the action at position k.
BuildInvoked(k, results) ==
    [position |-> k, label |-> actions[k].label,
     description |-> actions[k].action.description,
     results |-> results, hasReturned |-> FALSE]

ActionsInit ==
    /\ FlightIdle
    /\ ExtractIdle
    /\ DecodeIdle
    /\ DeltasIdle
    /\ ClientIdle
    /\ DiagIdle
    /\ DryIdle
    /\ ComposerIdle
    /\ actions \in ActionListInputs
    /\ actionsPc = "call"
    /\ ctxResults = EmptyMap
    /\ actionLog = <<>>

\* composeActions up to the first await: the first action's build is invoked
\* with the empty results map.
composeActions ==
    /\ actionsPc = "call"
    /\ IF actions = <<>>
       THEN /\ actionsPc' = "done"
            /\ UNCHANGED actionLog
       ELSE /\ actionsPc' = "building"
            /\ actionLog' = <<BuildInvoked(1, EmptyMap)>>
    /\ UNCHANGED <<actions, ctxResults>>
    /\ UNCHANGED <<extractVars, decodeVars, deltasVars, clientVars, flightVars>>
    /\ UNCHANGED <<diagVars, dryVars, composerVars>>

\* The awaited build returns: results.set(label, callResults), then the next
\* action's build is invoked, or the builder returns the composer.
actionBuildReturns ==
    /\ actionsPc = "building"
    /\ LET k == Len(actionLog)
           recorded == MapSet(ctxResults, actions[k].label, CallResults(k))
           log == [actionLog EXCEPT ![k].hasReturned = TRUE]
       IN /\ ctxResults' = recorded
          /\ IF k < Len(actions)
             THEN /\ actionLog' = Append(log, BuildInvoked(k + 1, recorded))
                  /\ UNCHANGED actionsPc
             ELSE /\ actionLog' = log
                  /\ actionsPc' = "done"
    /\ UNCHANGED actions
    /\ UNCHANGED <<extractVars, decodeVars, deltasVars, clientVars, flightVars>>
    /\ UNCHANGED <<diagVars, dryVars, composerVars>>

\* The awaited build throws: composeActions rejects.
actionBuildThrows ==
    /\ actionsPc = "building"
    /\ actionsPc' = "thrown"
    /\ UNCHANGED <<actions, ctxResults, actionLog>>
    /\ UNCHANGED <<extractVars, decodeVars, deltasVars, clientVars, flightVars>>
    /\ UNCHANGED <<diagVars, dryVars, composerVars>>

NextActions ==
    \/ composeActions
    \/ actionBuildReturns
    \/ actionBuildThrows

SpecActions == ActionsInit /\ [][NextActions]_vars

\* The builds are invoked in list order, each after the one before returned.
BuildsInOrder ==
    /\ Len(actionLog) <= Len(actions)
    /\ \A k \in 1..Len(actionLog) :
          /\ actionLog[k].position = k
          /\ actionLog[k].description = actions[k].action.description
          /\ k < Len(actionLog) => actionLog[k].hasReturned

\* C26: the builds of the actions are invoked in list order, each after the
\* one before has returned, and the results map the k-th build is invoked
\* with holds, for each of the k-1 earlier actions, an entry under its label
\* with the results recorded for it.
C26_Original ==
    /\ BuildsInOrder
    /\ \A k \in 1..Len(actionLog) :
          /\ Cardinality(DOMAIN actionLog[k].results) = k - 1
          /\ \A j \in 1..(k - 1) :
                /\ actions[j].label \in DOMAIN actionLog[k].results
                /\ actionLog[k].results[actions[j].label] = CallResults(j)

\* The third build was invoked with a map of one entry: the first two actions
\* share a label, and the results of the first are no longer in the map.
C26_ResultsLost ==
    /\ Len(actionLog) = 3
    /\ actions[1].label = actions[2].label
    /\ actions[1].action.outputs = 1
    /\ Cardinality(DOMAIN actionLog[3].results) = 1
    /\ actionLog[3].results[actions[1].label] # CallResults(1)

\* C26 for the action lists whose labels are pairwise distinct.
C26_DistinctLabels ==
    (\A i, j \in 1..Len(actions) : i # j => actions[i].label # actions[j].label)
        => C26_Original

(***************************************************************************)
(* The cross-step analysis of validateSteps, within build().               *)
(***************************************************************************)

\* A Ref with mode Move, in a step declared after step s, targets return i of
\* step s.
MovedByLaterStep(s, i) ==
    \E t \in (s + 1)..Len(steps) : \E j \in 1..Len(steps[t].step.args) :
        /\ steps[t].step.args[j].kind = "ref"
        /\ steps[t].step.args[j].step = steps[s].label
        /\ steps[t].step.args[j].returnIndex = i
        /\ steps[t].step.args[j].mode = "move"

UnconsumedIn(warnings, label, i) ==
    {k \in FindingsAbout(warnings, "UNCONSUMED_RESOURCE", label) :
        warnings[k].message.return = i}

\* C27: while build() composes the graph it validated, the findings hold an
\* UNCONSUMED_RESOURCE for every non-droppable return (s, i) that no Ref with
\* mode Move in a step declared after s targets.
C27_Original ==
    buildPc = "compose" =>
        \A s \in 1..Len(steps) :
            SignatureFound(steps[s].step.function) =>
                LET return == SignatureOf(steps[s].step.function).return
                IN \A i \in 0..(Len(return) - 1) :
                      (DeclaredWithoutDrop(return[i + 1]) /\ ~MovedByLaterStep(s, i))
                          => UnconsumedIn(lastWarnings, steps[s].label, i) # {}

\* The asset step a returns is only borrowed by step b, and build() composes
\* the graph without a finding about it.
C27_BorrowedNotFlagged ==
    /\ buildPc = "compose"
    /\ Len(steps) = 2
    /\ steps[1].step.function = FN_WITHDRAW
    /\ steps[2].step.args = <<LiteralArg(100), RefArg("a", 1, "borrow")>>
    /\ ~MovedByLaterStep(1, 1)
    /\ UnconsumedIn(lastWarnings, "a", 1) = {}

(***************************************************************************)
(* The fan-out of the first validateSteps call.                            *)
(***************************************************************************)

\* The first validateSteps call, entered with both caches empty, is awaiting
\* its promises.
FirstCallFetching == valPc = "fetching" /\ validated = Null /\ previous = Null

\* The steps whose fetchFunction asked the node for the module in this call.
FetchIssuedBy == {i \in 1..Len(fanOut) : fanOut[i].state \in {"wait", "done"}}

\* C28: in a validateSteps call entered with empty caches, exactly one request
\* for a signature goes to the node for each distinct function id of the
\* graph, however many steps call that function.
C28_Original ==
    (FirstCallFetching /\ Rejected = {}) =>
        \A s \in 1..Len(steps) :
            Cardinality({i \in FetchIssuedBy :
                            steps[i].step.function = steps[s].step.function}) = 1

\* Both steps of the graph call withdraw, and the node was asked for the
\* module once by each of them.
C28_FetchedTwice ==
    /\ FirstCallFetching
    /\ Len(steps) = 2
    /\ steps[1].step.function = FN_WITHDRAW
    /\ steps[2].step.function = FN_WITHDRAW
    /\ FetchIssuedBy = {1, 2}
    /\ fetchLog = << <<"0x1", "vault">>, <<"0x1", "vault">> >>

(***************************************************************************)
(* The builder loop of build(): the calls of composer.addBatchedCalls.     *)
(***************************************************************************)

\* Call k of addBatchedCalls is the call for step k, made with every Ref of the
\* step resolved to the output, under the Ref's mode, of a call made for a
\* step declared before step k.
CallForStep(k) ==
    LET made == BatchedCalls[k]
        args == steps[k].step.args
    IN /\ made.label = steps[k].label
       /\ made.input.function = steps[k].step.function
       /\ Len(made.input.functionArguments) = Len(args)
       /\ \A j \in 1..Len(args) :
             IsRef(args[j]) =>
                \E p \in 1..(k - 1) :
                    /\ steps[p].label = args[j].step
                    /\ made.input.functionArguments[j] =
                          applyRefMode(CallArgumentResult(p - 1, args[j].returnIndex),
                                       args[j].mode)

\* C29: a build() whose validation gave no hard finding calls
\* composer.addBatchedCalls for the steps in declaration order, one call per
\* step: while it composes, the calls made are the calls for the first steps
\* of the graph, the outputs of each are recorded under its step's label
\* before the next step is resolved, so that every Ref is resolved against the
\* outputs of a step declared strictly earlier; and when the builder returns,
\* every step has had its call.
C29_OneCallPerStepInOrder ==
    /\ [](buildPc = "compose" =>
             /\ ~HardFinding(lastWarnings)
             /\ Len(BatchedCalls) <= Len(steps)
             /\ DOMAIN resultsMap = {steps[k].label : k \in 1..Len(BatchedCalls)}
             /\ \A k \in 1..Len(BatchedCalls) :
                   /\ CallForStep(k)
                   /\ resultsMap[steps[k].label] =
                         addBatchedCalls(k - 1, BatchedCalls[k].input).results)
    /\ [][(buildPc = "compose" /\ buildPc' = "built") =>
             /\ Len(BatchedCalls) = Len(steps)
             /\ buildLog' = buildLog]_vars
    /\ [][(buildPc = "compose" /\ buildPc' = "compose") =>
             /\ Len(BatchedCalls') = Len(BatchedCalls) + 1
             /\ SubSeq(buildLog', 1, Len(buildLog)) = buildLog]_vars

\* build() has returned the transaction of a graph of two steps, the second
\* of which was called with the second output of the first.
C29_Witness ==
    /\ buildPc = "built"
    /\ Len(steps) = 2
    /\ Len(BatchedCalls) = 2
    /\ steps[2].step.args[2] = RefArg("a", 1, "move")
    /\ BatchedCalls[2].input.functionArguments[2] = CallArgumentResult(0, 1)

(***************************************************************************)
(* Claims about the step loop of dryRun, checked under SpecDryRun.         *)
(***************************************************************************)
\* The vault the first n steps carried forward: what the latest of them that
\* observed one observed, Null if none did.
CarriedVault(n) ==
    LET observed == {k \in 1..n : stepResults[k].vaultAfter # Undefined}
    IN IF observed = {} THEN Null ELSE stepResults[Latest(observed)].vaultAfter

\* The state the loop carries forward is the one the last finished step left.
CarriedStateAdvanced ==
    /\ currentBalances = (IF stepResults = <<>> THEN initialSnapshot.balances
                          ELSE stepResults[Len(stepResults)].balancesAfter)
    /\ currentVault = CarriedVault(Len(stepResults))

\* C30: dryRun asks for the simulation of each plan step once and in
\* declaration order: the requests made so far are the payloads of the first
\* steps of the plan, a request for the next step is made only when every
\* earlier request has returned, its StepResult was pushed and the carried
\* balances and vault were advanced to it, a failed simulation is followed by
\* the request for the next step like any other, and the report has one
\* StepResult per plan step, in plan order.
C30_EveryStepOnceInOrder ==
    /\ [](dryPc \in {"loop", "simulating", "done", "rejected"} =>
             /\ Len(simRequests) <= Len(plan.steps)
             /\ \A k \in 1..Len(simRequests) : simRequests[k] = plan.steps[k].payload
             /\ Len(stepResults) = Len(simLog)
             /\ Len(simRequests) =
                   Len(simLog) + (IF dryPc \in {"simulating", "rejected"} THEN 1 ELSE 0)
             /\ \A k \in 1..Len(stepResults) :
                   /\ stepResults[k].label = plan.steps[k].label
                   /\ stepResults[k].vmStatus = simLog[k].vmStatus
             /\ CarriedStateAdvanced)
    /\ [](dryPc = "done" =>
             /\ Len(simRequests) = Len(plan.steps)
             /\ Len(report.stepResults) = Len(plan.steps)
             /\ \A k \in 1..Len(plan.steps) :
                   report.stepResults[k].label = plan.steps[k].label)
    /\ [][simRequests' # simRequests =>
             /\ dryPc = "loop"
             /\ Len(simLog) = Len(simRequests)
             /\ simRequests' = Append(simRequests, plan.steps[Len(simLog) + 1].payload)
             /\ UNCHANGED <<stepResults, simLog, currentBalances, currentVault>>]_vars
    /\ [][stepResults' # stepResults =>
             /\ dryPc = "simulating"
             /\ Len(stepResults') = Len(stepResults) + 1
             /\ SubSeq(stepResults', 1, Len(stepResults)) = stepResults
             /\ UNCHANGED simRequests]_vars
    /\ [][(dryPc = "loop" /\ Len(simLog) < Len(plan.steps) /\ dryPc' # dryPc) =>
             dryPc' = "simulating"]_vars

\* A report of three steps whose first simulation failed: the second and third
\* were simulated all the same.
C30_Witness ==
    /\ dryPc = "done"
    /\ Len(report.stepResults) = 3
    /\ ~report.stepResults[1].success
    /\ report.stepResults[3].success
    /\ simRequests = <<Payload(1), Payload(2), Payload(3)>>

\* The request for the second step is out after the first simulation failed and
\* moved the carried balance of token A.
C30_WitnessNextAfterFailed ==
    /\ dryPc = "simulating"
    /\ Len(simRequests) = 2
    /\ ~simLog[1].success
    /\ currentBalances["0xa"] # initialSnapshot.balances["0xa"]

(***************************************************************************)
(* Properties of the per-step checks of validateSteps, under SpecValidate. *)
(***************************************************************************)
\* The SIGNER_MISMATCH findings about this step that name argument position i
\* (counted from 0, as the message does).
MismatchesAt(warnings, label, i) ==
    {k \in FindingsAbout(warnings, "SIGNER_MISMATCH", label) : warnings[k].message.arg = i}

\* Position i (from 0) of the step holds a Signer where the function takes no
\* signer, or something else where it takes one.
Offending(step, n, i) ==
    \/ i < n /\ step.args[i + 1].kind # "signer"
    \/ i >= n /\ step.args[i + 1].kind = "signer"

\* C31: for every step whose signature was found, n being its number of leading
\* signer parameters, validateSteps emits exactly one SIGNER_MISMATCH naming
\* position i for each supplied argument position i that holds a non-Signer
\* below n or a Signer at n or above, and no SIGNER_MISMATCH about the step
\* names any other position.
C31_SignerMismatch ==
    ValidateReturned =>
        \A s \in 1..Len(steps) :
            SignatureFound(steps[s].step.function) =>
                LET step == steps[s].step
                    n == LeadingSigners(SignatureOf(step.function).params)
                    about == FindingsAbout(validated.warnings, "SIGNER_MISMATCH",
                                           steps[s].label)
                IN /\ \A i \in 0..(Len(step.args) - 1) :
                         Cardinality(MismatchesAt(validated.warnings, steps[s].label, i)) =
                             (IF Offending(step, n, i) THEN 1 ELSE 0)
                   /\ \A k \in about :
                         validated.warnings[k].message.arg \in 0..(Len(step.args) - 1)

\* withdraw(&signer, u64) called with a literal first and a Signer second: both
\* positions are named, the second with the parameter type it stands for.
C31_Witness ==
    /\ ValidateReturned
    /\ Len(steps) >= 1
    /\ steps[1].step = ComposerStep(FN_WITHDRAW, <<>>, <<LiteralArg(100), SignerArg>>)
    /\ Cardinality(FindingsAbout(validated.warnings, "SIGNER_MISMATCH", "a")) = 2
    /\ \E k \in MismatchesAt(validated.warnings, "a", 1) :
          validated.warnings[k].message.paramType = T_U64

NonSignerArgsOf(step) == Len(step.args) - SignerArgsOf(step)

\* C32: for every step whose signature was found, validateSteps emits exactly
\* one ARG_COUNT_ERROR, citing both counts, when the number of non-Signer args
\* of the step differs from the number of parameters after the function's
\* leading signers, and none when the two are equal, whether or not the step
\* also has a SIGNER_COUNT_ERROR.
C32_ArgCount ==
    ValidateReturned =>
        \A s \in 1..Len(steps) :
            SignatureFound(steps[s].step.function) =>
                LET params == SignatureOf(steps[s].step.function).params
                    expected == Len(params) - LeadingSigners(params)
                    supplied == NonSignerArgsOf(steps[s].step)
                    found == FindingsAbout(validated.warnings, "ARG_COUNT_ERROR",
                                           steps[s].label)
                IN IF supplied # expected
                   THEN /\ Cardinality(found) = 1
                        /\ \A k \in found :
                              validated.warnings[k].message =
                                  [expected |-> expected, got |-> supplied]
                   ELSE found = {}

\* withdraw(&signer, u64) called with two literals has both count errors;
\* called with one literal it has the
\* signer count error alone.
C32_Witness ==
    /\ ValidateReturned
    /\ Len(steps) = 2
    /\ steps[1].step = ComposerStep(FN_WITHDRAW, <<>>, <<LiteralArg(100), LiteralArg(100)>>)
    /\ steps[2].step = ComposerStep(FN_WITHDRAW, <<>>, <<LiteralArg(100)>>)
    /\ Cardinality(FindingsAbout(validated.warnings, "ARG_COUNT_ERROR", "a")) = 1
    /\ FindingsAbout(validated.warnings, "SIGNER_COUNT_ERROR", "a") # {}
    /\ FindingsAbout(validated.warnings, "ARG_COUNT_ERROR", "b") = {}
    /\ FindingsAbout(validated.warnings, "SIGNER_COUNT_ERROR", "b") # {}

\* deposit(address, asset) called with the signer count it expects (none) and
\* one argument too few.
C32_WitnessArgCountAlone ==
    /\ ValidateReturned
    /\ Len(steps) = 1
    /\ steps[1].step = ComposerStep(FN_DEPOSIT, <<>>, <<LiteralArg(100)>>)
    /\ FindingsAbout(validated.warnings, "SIGNER_COUNT_ERROR", "a") = {}
    /\ FindingsAbout(validated.warnings, "ARG_COUNT_ERROR", "a") # {}

(***************************************************************************)
(* extractVaultFromSimulation called on its own, on changes drawn in Init. *)
(* The two copies of the function in the repository are the same text.     *)
(***************************************************************************)
OTHER_PROTOCOL == "0xQ"

\* The type of the position resource of a lending protocol.
PositionTypeOf(protocolAddress) ==
    IF protocolAddress = PROTOCOL THEN "0xP::lending::Vault" ELSE "0xQ::lending::Vault"

VaultChangeInputs ==
    { WriteVault(AccountAddr(OWNER), "0xP::lending::Vault", <<2, 1>>, <<1, 3>>),
      WriteVault(AccountAddr(OWNER), "0xP::lending::Vault", <<>>, <<>>),
      DeleteResource(AccountAddr(OWNER), "0xP::lending::Vault"),
      WriteVault(AccountAddr(OWNER), "0xQ::lending::Vault", <<9>>, <<9>>),
      DeleteResource(AccountAddr(OWNER), "0xQ::lending::Vault"),
      DeleteResource(AccountAddr(OWNER), "0xQ::farming::VaultConfig"),
      WriteStore(STORE_A, 1) }

\* A write set holds at most one change of a resource.
OneChangePerResource(changes) ==
    \A i, j \in 1..Len(changes) :
        (changes[i].address = changes[j].address
            /\ changes[i].dataType = changes[j].dataType) => i = j

VaultInit ==
    /\ DecodeIdle
    /\ DeltasIdle
    /\ ClientIdle
    /\ ActionsIdle
    /\ FlightIdle
    /\ DiagIdle
    /\ DryIdle
    /\ ComposerIdle
    /\ extractPc = "call"
    /\ extractCopy = "flow-tracker.ts"
    /\ extractArgs \in
         { [raw |-> [changes |-> c], protocolAddress |-> p] :
           c \in {cs \in SeqsUpTo(VaultChangeInputs, MaxChanges) : OneChangePerResource(cs)},
           p \in {PROTOCOL, OTHER_PROTOCOL} }
    /\ extracted = Null

extractVaultCall ==
    /\ extractPc = "call"
    /\ extracted' = extractVaultFromSimulation(extractArgs.raw, extractArgs.protocolAddress)
    /\ extractPc' = "returned"
    /\ UNCHANGED <<extractCopy, extractArgs>>
    /\ UNCHANGED <<decodeVars, deltasVars, clientVars, actionsVars, flightVars>>
    /\ UNCHANGED <<diagVars, dryVars, composerVars>>

NextVault == extractVaultCall

SpecVault == VaultInit /\ [][NextVault]_vars

\* The sum of the first n values, added from the last down.
RECURSIVE SumOfFirst(_, _)
SumOfFirst(values, n) == IF n = 0 THEN 0 ELSE values[n] + SumOfFirst(values, n - 1)

\* The snapshot that reports this change of a position resource.
SnapshotOfChange(c) ==
    IF c.type = "delete_resource"
    THEN [market |-> "", collateral |-> 0, debtPrincipal |-> 0, exists |-> FALSE]
    ELSE [market |-> "", collateral |-> SumOfFirst(c.collaterals, Len(c.collaterals)),
          debtPrincipal |-> SumOfFirst(c.liabilities, Len(c.liabilities)),
          exists |-> TRUE]

\* The positions of the changes the function takes for a change of the position:
\* a deleted resource named *Vault*, a written lending::Vault.
TakenForPosition(changes) ==
    {i \in 1..Len(changes) :
        changes[i].dataType \in {"0xP::lending::Vault", "0xQ::lending::Vault"}
        \/ (changes[i].type = "delete_resource"
               /\ changes[i].dataType = "0xQ::farming::VaultConfig")}

\* The positions of the changes of the position resource of this protocol.
PositionChanges(changes, protocolAddress) ==
    {i \in 1..Len(changes) : changes[i].dataType = PositionTypeOf(protocolAddress)}

Earliest(positions) == CHOOSE i \in positions : \A j \in positions : i <= j

\* C33: the snapshot extractVaultFromSimulation returns for the change it takes
\* for the position's is {exists: false, collateral: 0, debtPrincipal: 0} when
\* that change is a deletion, and otherwise exists: true with the sum of all the
\* collateral entry values and the sum of all the liability principals of the
\* resource written; it is null when there is no such change.  In particular
\* this is what it returns for the change of the given protocol's position
\* when that is the only Vault-named change of the simulation.
C33_VaultAggregates ==
    extractPc = "returned" /\ "protocolAddress" \in DOMAIN extractArgs =>
        LET changes == extractArgs.raw.changes
            taken == TakenForPosition(changes)
            own == PositionChanges(changes, extractArgs.protocolAddress)
        IN /\ taken = {} <=> extracted = Null
           /\ taken # {} => extracted = SnapshotOfChange(changes[Earliest(taken)])
           /\ (own # {} /\ taken = own) =>
                 extracted = SnapshotOfChange(changes[Earliest(own)])

\* A position written with two collateral legs and two liabilities.
C33_Witness ==
    /\ extractPc = "returned"
    /\ extractArgs.protocolAddress = PROTOCOL
    /\ extractArgs.raw.changes =
          << WriteStore(STORE_A, 1),
             WriteVault(AccountAddr(OWNER), "0xP::lending::Vault", <<2, 1>>, <<1, 3>>) >>
    /\ extracted = [market |-> "", collateral |-> 3, debtPrincipal |-> 4, exists |-> TRUE]

\* The position deleted.
C33_WitnessDeleted ==
    /\ extractPc = "returned"
    /\ extractArgs.protocolAddress = PROTOCOL
    /\ extractArgs.raw.changes = << DeleteResource(AccountAddr(OWNER), "0xP::lending::Vault") >>
    /\ extracted # Null
    /\ ~extracted.exists

\* C34: the snapshot extractVaultFromSimulation returns derives from the change
\* to the position resource type of the given protocol address only: null when
\* the simulation holds no such change, the snapshot of that change otherwise,
\* whatever Vault-named resources of other protocol addresses were written or
\* deleted.
C34_Original ==
    extractPc = "returned" /\ "protocolAddress" \in DOMAIN extractArgs =>
        LET changes == extractArgs.raw.changes
            own == PositionChanges(changes, extractArgs.protocolAddress)
        IN extracted = (IF own = {} THEN Null
                        ELSE SnapshotOfChange(changes[Earliest(own)]))

\* Asked for the position at 0xP, the function reports the vault written at 0xQ.
C34_ForeignVaultReported ==
    /\ extractPc = "returned"
    /\ extractArgs.protocolAddress = PROTOCOL
    /\ extractArgs.raw.changes =
          << WriteVault(AccountAddr(OWNER), "0xQ::lending::Vault", <<9>>, <<9>>) >>
    /\ extracted # Null
    /\ extracted.collateral = 9

\* The deletion of another protocol's VaultConfig hides the position written at 0xP.
C34_ForeignDeletionAlters ==
    /\ extractPc = "returned"
    /\ extractArgs.protocolAddress = PROTOCOL
    /\ extractArgs.raw.changes =
          << DeleteResource(AccountAddr(OWNER), "0xQ::farming::VaultConfig"),
             WriteVault(AccountAddr(OWNER), "0xP::lending::Vault", <<2, 1>>, <<1, 3>>) >>
    /\ extracted # Null
    /\ ~extracted.exists

(***************************************************************************)
(* One DynamicComposer called again while a simulate() on it is suspended. *)
(* simulate() awaits validateSteps, every addBatchedCalls of the builder,  *)
(* and the node's simulation; at each of these the caller's other code     *)
(* runs and can call addStep or build() on the same instance.  `steps` in  *)
(* build() is this.steps itself, the array addStep pushes to, and          *)
(* lastWarnings is a field of the instance.                                *)
(***************************************************************************)
\* simulate() called on an idle composer, the steps and the warnings of its
\* validation noted.
simulateEntered ==
    /\ BuildNotRunning
    /\ buildEntered
    /\ composed' = IF buildPc' = "thrown" THEN Null ELSE Pending
    /\ inFlight' = IF buildPc' = "thrown" THEN Null
                   ELSE [steps |-> steps, warnings |-> lastWarnings']
    /\ UNCHANGED <<extractVars, decodeVars, deltasVars, clientVars, actionsVars>>
    /\ UNCHANGED <<diagVars, dryVars, fetchVars>>

\* addStep called while the simulate() is suspended.
addStepMeanwhile(label, step) ==
    /\ ~BuildNotRunning
    /\ addStepCall(label, step)
    /\ UNCHANGED <<callVars, diagVars, dryVars, fetchVars>>

\* Another build() called while the simulate() is suspended, followed to its
\* return or throw: it validates this.steps and assigns this.lastWarnings; what
\* it composes goes to a composer and a resultsMap of its own.
buildMeanwhile ==
    /\ ~BuildNotRunning
    /\ Len(steps) > 0
    /\ LET v == validateSteps(steps, functionAbiCache, moduleAbiCache)
       IN /\ functionAbiCache' = v.functionAbiCache
          /\ moduleAbiCache' = v.moduleAbiCache
          /\ fetchLog' = Watched(v.requests)
          /\ lastWarnings' = IF v.threw THEN lastWarnings ELSE v.warnings
    /\ UNCHANGED <<steps, validated, buildPc, resultsMap, buildLog, buildError, composed,
                   declareError>>
    /\ UNCHANGED <<callVars, diagVars, dryVars, fetchVars>>

\* withdraw leaves a FungibleAsset that deposit consumes; withdraw with its
\* arguments swapped has signer mismatches; a function that is not on chain.
ConcurrentStepInputs ==
    { ComposerStep(FN_WITHDRAW, <<>>, <<SignerArg, LiteralArg(100)>>),
      ComposerStep(FN_WITHDRAW, <<>>, <<LiteralArg(100), SignerArg>>),
      ComposerStep(FN_DEPOSIT, <<>>, <<LiteralArg(100), RefArg("a", 1, "move")>>),
      ComposerStep(FN_FAKE, <<>>, <<SignerArg, LiteralArg(100)>>) }

NextConcurrent ==
    \/ \E step \in StepInputsAfter(steps, ConcurrentStepInputs) :
          addStep(StepLabels[Len(steps) + 1], step)
    \/ simulateEntered
    \/ \E step \in StepInputsAfter(steps, ConcurrentStepInputs) :
          addStepMeanwhile(StepLabels[Len(steps) + 1], step)
    \/ buildMeanwhile
    \/ builderStep
    \/ builderReturn
    \/ \E simulation \in SimulationOutcomes : simulateReturn(simulation)

SpecConcurrent == ComposeInit /\ [][NextConcurrent]_vars

\* C35: every step handed to addBatchedCalls during a build() is a step of the
\* graph that build() handed to validateSteps; a step addStep adds while the
\* build() is suspended is not composed into its transaction.
C35_Original ==
    (inFlight # Null /\ buildPc \in {"compose", "built"}) =>
        \A k \in 1..Len(BatchedCalls) :
            \E i \in 1..Len(inFlight.steps) :
                /\ inFlight.steps[i].label = BatchedCalls[k].label
                /\ inFlight.steps[i].step.function = BatchedCalls[k].input.function

\* The build validated step "a" alone and composed "a" and "b".
C35_UnvalidatedComposed ==
    /\ inFlight # Null
    /\ buildPc = "built"
    /\ Len(inFlight.steps) = 1
    /\ Len(BatchedCalls) = 2
    /\ BatchedCalls[2].label = "b"

\* C36: the warnings of the ComposedResult a simulate() call returns are the
\* findings of the validation that call ran, whatever other build() ran on
\* the composer while the call was suspended.
C36_Original ==
    [][(composed = Pending /\ composed' # Pending /\ composed' # Null) =>
          composed'.warnings = inFlight.warnings]_vars

\* simulate() has returned warnings that its own validation did not give.
C36_OthersWarningsReturned ==
    /\ composed # Null
    /\ composed # Pending
    /\ buildPc = "idle"
    /\ inFlight # Null
    /\ composed.warnings # inFlight.warnings
    /\ HardFinding(composed.warnings)

(***************************************************************************)
(* dryRun driven with the statuses a simulation can carry.  vmStatus is    *)
(* the response's vm_status, the empty string when the response has none   *)
(* (getResponseField), and success is the response's success.              *)
(***************************************************************************)
StatusOutcomeInputs ==
    { [success |-> TRUE, vmStatus |-> <<EXECUTED>>],
      [success |-> FALSE, vmStatus |-> <<"Move abort", "lending">>],
      [success |-> FALSE, vmStatus |-> <<"SEQUENCE_NUMBER">>],
      [success |-> FALSE, vmStatus |-> <<>>] }

StatusSimulationInputs ==
    { [success |-> o.success, vmStatus |-> o.vmStatus, raw |-> [changes |-> <<>>]] :
      o \in StatusOutcomeInputs }

NextDryRunStatuses ==
    \/ \E balances \in SnapshotInputs : CaptureSnapshot(balances)
    \/ SimulateRequested
    \/ \E simulation \in StatusSimulationInputs : SimulateStep(simulation)
    \/ SimulateThrows
    \/ Aggregate

SpecDryRunStatuses == DryInit /\ [][NextDryRunStatuses]_vars

\* The errors of the report that carry the label of step k.
ErrorsOfStep(k) ==
    {e \in 1..Len(report.errors) : report.errors[e].stepLabel = plan.steps[k].label}

\* C37: a FlowReport with success = false has a non-empty errors list that
\* holds at least one diagnosis for every failed step, whatever VM status the
\* failed simulation carried.
C37_Original ==
    (dryPc = "done" /\ ~report.success) =>
        /\ report.errors # <<>>
        /\ \A k \in 1..Len(report.stepResults) :
              ~report.stepResults[k].success => ErrorsOfStep(k) # {}

\* A report that failed and has no error at all: its only failed step carried
\* an empty status.
C37_FailedUndiagnosed ==
    /\ dryPc = "done"
    /\ ~report.success
    /\ report.errors = <<>>
    /\ \E k \in 1..Len(simLog) : ~simLog[k].success /\ simLog[k].vmStatus = <<>>

\* Every failed step whose status is not empty has its diagnosis in the report.
C37_NonEmptyStatusDiagnosed ==
    dryPc = "done" =>
        \A k \in 1..Len(report.stepResults) :
            (~report.stepResults[k].success /\ report.stepResults[k].vmStatus # <<>>)
                => ErrorsOfStep(k) # {}

(***************************************************************************)
(* Claims about the expectations of a dry run, checked under SpecDryRun.   *)
(***************************************************************************)
\* The positions of the expectations of this type among those of step k.
ExpectationsOfType(k, types) ==
    {i \in 1..Len(plan.steps[k].expectations) : plan.steps[k].expectations[i].type \in types}

\* C38: an expectation of type success on a step is reported as passed if and
\* only if the simulation of that step succeeded.
C38_Original ==
    dryPc \in {"loop", "done"} =>
        \A k \in 1..Len(stepResults) :
            \A i \in ExpectationsOfType(k, {"success"}) :
                stepResults[k].expectationResults[i].passed <=> simLog[k].success

\* The simulation of the first step failed and its success expectation is
\* reported as passed.
C38_PassedOnFailedStep ==
    /\ dryPc = "done"
    /\ ~simLog[1].success
    /\ ~report.stepResults[1].success
    /\ \E i \in ExpectationsOfType(1, {"success"}) :
          /\ report.stepResults[1].expectationResults[i].passed
          /\ report.stepResults[1].expectationResults[i].actual = <<"checked at step level">>

VaultExpectationTypes == {"vault_debt_decrease", "vault_collateral_decrease"}

\* What the simulation of step k showed of the vault, Null when nothing.
ObservedVault(k) == extractVaultFromSimulation(simLog[k].raw, plan.vaultProtocol)

\* The vault carried forward after the first n steps: what the most recent of
\* them that observed the vault observed, Null when none did.
VaultCarriedAfter(n) ==
    LET observing == {k \in 1..n : ObservedVault(k) # Null}
    IN IF observing = {} THEN Null ELSE ObservedVault(Latest(observing))

\* The value a vault expectation of this type compares.
VaultValue(type, vault) ==
    IF type = "vault_debt_decrease" THEN vault.debtPrincipal ELSE vault.collateral

VaultWord(type) == IF type = "vault_debt_decrease" THEN "debt" ELSE "collateral"

\* The statement as the claim has it: a vault expectation that does not pass
\* fails with "vault not tracked", whatever the reason.
C39_Original ==
    dryPc \in {"loop", "done"} =>
        /\ currentVault = VaultCarriedAfter(Len(simLog))
        /\ \A k \in 1..Len(stepResults) :
              \A i \in ExpectationsOfType(k, VaultExpectationTypes) :
                 LET type == plan.steps[k].expectations[i].type
                     before == VaultCarriedAfter(k - 1)
                     after == ObservedVault(k)
                     r == stepResults[k].expectationResults[i]
                 IN IF before # Null /\ after # Null
                       /\ VaultValue(type, after) < VaultValue(type, before)
                    THEN r.passed
                    ELSE ~r.passed /\ r.actual = <<"vault not tracked">>

\* C39: in dryRun the carried-forward vault is the snapshot observed by the
\* most recent step that observed the vault, none before the first observation;
\* a vault_debt_decrease or vault_collateral_decrease expectation passes exactly
\* when an earlier step and the current step both observed the vault and the
\* current value is strictly smaller; it fails with "vault not tracked" when
\* either observation is missing, the first step that observes the vault
\* included, and fails with the two values as its actual when both were
\* observed and the value did not get smaller.
C39_VaultExpectations ==
    dryPc \in {"loop", "done"} =>
        /\ currentVault = VaultCarriedAfter(Len(simLog))
        /\ \A k \in 1..Len(stepResults) :
              \A i \in ExpectationsOfType(k, VaultExpectationTypes) :
                 LET type == plan.steps[k].expectations[i].type
                     before == VaultCarriedAfter(k - 1)
                     after == ObservedVault(k)
                     r == stepResults[k].expectationResults[i]
                 IN IF before = Null \/ after = Null
                    THEN ~r.passed /\ r.actual = <<"vault not tracked">>
                    ELSE /\ r.passed <=>
                               VaultValue(type, after) < VaultValue(type, before)
                         /\ r.actual = <<VaultWord(type), VaultValue(type, before),
                                         VaultValue(type, after)>>

\* The first step observed the vault, the second did not, the third saw it
\* deleted: the third step's expectations pass against what the first observed.
C39_Witness ==
    /\ dryPc = "done"
    /\ Len(simLog) = 3
    /\ ObservedVault(1) # Null /\ ObservedVault(1).exists
    /\ ObservedVault(2) = Null
    /\ ObservedVault(3) # Null /\ ~ObservedVault(3).exists
    /\ ExpectationsOfType(3, VaultExpectationTypes) # {}
    /\ \A i \in ExpectationsOfType(1, VaultExpectationTypes) :
          report.stepResults[1].expectationResults[i].actual = <<"vault not tracked">>
    /\ \A i \in ExpectationsOfType(3, VaultExpectationTypes) :
          report.stepResults[3].expectationResults[i].passed

\* Both steps observed the same vault: the second step's debt expectation fails
\* with the two values, not with "vault not tracked".
C39_WitnessNotSmaller ==
    /\ dryPc = "done"
    /\ Len(simLog) >= 2
    /\ ObservedVault(1) # Null
    /\ ObservedVault(2) = ObservedVault(1)
    /\ \E i \in ExpectationsOfType(2, {"vault_debt_decrease"}) :
          /\ ~report.stepResults[2].expectationResults[i].passed
          /\ report.stepResults[2].expectationResults[i].actual = <<"debt", 1, 1>>

=============================================================================
